---- MODULE Spec2Model ----
(***************************************************************************)
(* A model of nifty-udp (src/src/lib.rs): the wire codec, the socket       *)
(* adapter, the six channel state machines, the Connection and the Client, *)
(* with a lossy network between two endpoints and a clock.                 *)
(*                                                                         *)
(* Datagrams are sequences of bytes (0..255) with the field widths of the  *)
(* source.  Option<T> is a sequence of length 0 (None) or 1 (Some).        *)
(* A Result is carried by the socket record: its field err is "Ok" until   *)
(* a call fails, and every later step of the operation is skipped, as the  *)
(* ? operator does.                                                        *)
(***************************************************************************)
EXTENDS Integers, Sequences, FiniteSets, TLC

\* ------------------------------------------------------------------ bounds
MaxTime == 3
MaxInbox == 1
MaxEvents == 2
MaxSeq == 2
MaxFaults == 1
MaxSends == 2
MaxClock == 6
\* u128 arithmetic is carried out modulo 2^U128Bits (the width is scaled down)
U128Bits == 8

\* ------------------------------------------------------- program constants
CHANNEL_OFFSET == 3

\* ------------------------------------------------------------------ Option
None == <<>>
Some(x) == <<x>>
IsSome(o) == Len(o) = 1
IsNone(o) == Len(o) = 0
Unwrap(o) == o[1]

\* ------------------------------------------------------------- wire codec
Byte == 0..255

RECURSIVE to_be_bytes(_, _)
to_be_bytes(v, n) ==
  IF n = 0 THEN <<>> ELSE to_be_bytes(v \div 256, n - 1) \o <<v % 256>>

RECURSIVE from_be_bytes(_)
from_be_bytes(b) ==
  IF Len(b) = 0 THEN 0
  ELSE from_be_bytes(SubSeq(b, 1, Len(b) - 1)) * 256 + b[Len(b)]

\* message.get(lo..hi): the bytes at the 0-based indices lo..hi-1, if present
Get(message, lo, hi) ==
  IF hi <= Len(message) THEN Some(SubSeq(message, lo + 1, hi)) ELSE None

\* &message[lo..]
Tail_from(message, lo) == SubSeq(message, lo + 1, Len(message))

\* ---------------------------------------------------------------- Socket
\* out_buffer: the staging buffer; sent: the datagrams handed to send_to in
\* this operation; fail: how many more send_to calls succeed (-1: all).
NewSocket(out_buffer, fail) ==
  [out_buffer |-> out_buffer, sent |-> <<>>, err |-> "Ok", fail |-> fail]

clear_buffer(sk) ==
  IF sk.err # "Ok" THEN sk ELSE [sk EXCEPT !.out_buffer = <<>>]

write(sk, bytes, max_message_size) ==
  IF sk.err # "Ok" THEN sk
  ELSE IF max_message_size - Len(sk.out_buffer) < Len(bytes)
       THEN [sk EXCEPT !.err = "MessageTooLong"]
       ELSE [sk EXCEPT !.out_buffer = @ \o bytes]

send_to(sk, addr) ==
  IF sk.err # "Ok" THEN sk
  ELSE IF sk.fail = 0
       THEN [sk EXCEPT !.err = "IoError"]
       ELSE [sk EXCEPT !.sent = Append(@, [addr |-> addr, data |-> sk.out_buffer]),
                       !.fail = IF @ > 0 THEN @ - 1 ELSE @]

heartbeat(sk, addr, instance, time, mms) ==
  send_to(write(write(write(clear_buffer(sk), <<0>>, mms), instance, mms),
                to_be_bytes(time, 16), mms), addr)

close(sk, addr, mms) ==
  send_to(write(clear_buffer(sk), <<1>>, mms), addr)

channel_prefix(sk, channel_id, mms) ==
  write(clear_buffer(sk), <<channel_id + CHANNEL_OFFSET>>, mms)

\* ------------------------------------------------- FEC codec (raptor_code)
\* The codec is an external crate; it is modelled by its contract as a
\* systematic erasure code: the message is cut into k <= max_data_symbols
\* equal source symbols (zero padded), every repair symbol is the bytewise sum
\* (mod 256) of the source symbols, and the decoder is fully specified once
\* the symbols it holds determine every source symbol.
CeilDiv(a, b) == (a + b - 1) \div b

SymbolSize(message, max_data_symbols) == CeilDiv(Len(message), max_data_symbols)

NumSourceSymbols(message, max_data_symbols) ==
  CeilDiv(Len(message), SymbolSize(message, max_data_symbols))

SourceSymbol(message, size, i) ==
  [j \in 1..size |-> IF i * size + j <= Len(message) THEN message[i * size + j] ELSE 0]

RECURSIVE SumSymbols(_, _)
SumSymbols(symbols, size) ==
  IF Len(symbols) = 0 THEN [j \in 1..size |-> 0]
  ELSE LET rest == SumSymbols(Tail(symbols), size)
       IN  [j \in 1..size |-> (Head(symbols)[j] + rest[j]) % 256]

encode_source_block(message, max_data_symbols, max_repair_symbols) ==
  LET size == SymbolSize(message, max_data_symbols)
      k == NumSourceSymbols(message, max_data_symbols)
      source == [i \in 1..k |-> SourceSymbol(message, size, i - 1)]
      repair == SumSymbols(source, size)
  IN  [symbols |-> source \o [j \in 1..max_repair_symbols |-> repair],
       num_source_symbols |-> k]

SourceBlockDecoder_new(num_source_symbols) ==
  [k |-> num_source_symbols, got |-> {}]

push_encoding_symbol(decoder, data, index) ==
  IF \E g \in decoder.got : g.index = index THEN decoder
  ELSE [decoder EXCEPT !.got = @ \cup {[index |-> index, data |-> data]}]

fully_specified(decoder) ==
  LET src == {g \in decoder.got : g.index < decoder.k}
      rep == {g \in decoder.got : g.index >= decoder.k}
  IN  \/ Cardinality(src) = decoder.k
      \/ Cardinality(src) = decoder.k - 1 /\ rep # {}

decode(decoder, source_block_length) ==
  LET src == {g \in decoder.got : g.index < decoder.k}
      rep == {g \in decoder.got : g.index >= decoder.k}
      size == Len((CHOOSE g \in decoder.got : TRUE).data)
      known(i) == (CHOOSE g \in src : g.index = i).data
      have == {g.index : g \in src}
      parity == (CHOOSE g \in rep : TRUE).data
      others(i) == [j \in 1..size |->
                     LET idx == have \ {i}
                         RECURSIVE Sum(_)
                         Sum(S) == IF S = {} THEN 0
                                   ELSE LET x == CHOOSE y \in S : TRUE
                                        IN  known(x)[j] + Sum(S \ {x})
                     IN  Sum(idx)]
      symbol(i) == IF i \in have THEN known(i)
                   ELSE [j \in 1..size |-> (parity[j] - others(i)[j]) % 256]
      RECURSIVE Concat(_)
      Concat(i) == IF i = decoder.k THEN <<>> ELSE symbol(i) \o Concat(i + 1)
  IN  SubSeq(Concat(0), 1, source_block_length)

\* ---------------------------------------------------------------- Channel
\* A resend_threshhold is a positive rational <<numerator, denominator>>.
Channel_new(config, channel_id, addr) ==
  [addr |-> addr, channel_id |-> channel_id,
   channel_type |->
     CASE config.kind = "SendUnreliable" -> [kind |-> "SendUnreliable"]
       [] config.kind = "ReceiveUnreliable" -> [kind |-> "ReceiveUnreliable"]
       [] config.kind = "SendReliable" ->
            [kind |-> "SendReliable",
             resend_threshhold |-> config.resend_threshhold,
             seq_counter |-> 0, messages_start_seq |-> 0, messages |-> <<>>]
       [] config.kind = "ReceiveReliable" ->
            [kind |-> "ReceiveReliable",
             acks_to_send |-> <<>>, received_start_seq |-> 0, received |-> <<>>]
       [] config.kind = "SendFecReliable" ->
            [kind |-> "SendFecReliable",
             resend_threshhold |-> config.resend_threshhold,
             max_data_symbols |-> config.max_data_symbols,
             max_repair_symbols |-> config.max_repair_symbols,
             seq_counter |-> 0, messages_start_seq |-> 0, messages |-> <<>>]
       [] config.kind = "ReceiveFecReliable" ->
            [kind |-> "ReceiveFecReliable",
             messages_start_seq |-> 0, messages |-> <<>>]]

\* The number of leading slots of a ring that match the pattern, flags
\* telling slot by slot which do: what
\* `while let <pattern> = ring.front() { ring.pop_front(); start += 1 }` pops.
Leading(flags) ==
  IF \A i \in DOMAIN flags : flags[i] THEN Cardinality(DOMAIN flags)
  ELSE (CHOOSE i \in DOMAIN flags : ~flags[i] /\ \A j \in 1..(i - 1) : flags[j]) - 1

DropFront(ring, n) == SubSeq(ring, n + 1, Len(ring))

\* ring.get_mut(i) grown by push_back(fill) until index i exists
GrowTo(ring, i, fill) ==
  IF i < Len(ring) THEN ring
  ELSE ring \o [j \in 1..(i + 1 - Len(ring)) |-> fill]

\* ---- Channel::send
send_SendUnreliable(ch, message, sk, mms) ==
  [ch |-> ch, sk |-> send_to(write(sk, message, mms), ch.addr)]

\* send_SendReliable with the message recorded whether or not it was sent
send_SendReliable_eager(ch, message, sk, mms, now) ==
  LET t == ch.channel_type
      s1 == send_to(write(write(sk, to_be_bytes(t.seq_counter, 8), mms), message, mms),
                    ch.addr)
  IN  [ch |-> [ch EXCEPT !.channel_type.messages =
                            Append(@, Some([last_sent |-> now, data |-> message])),
                         !.channel_type.seq_counter = @ + 1],
       sk |-> s1]

send_SendReliable(ch, message, sk, mms, now) ==
  LET t == ch.channel_type
      s1 == send_to(write(write(sk, to_be_bytes(t.seq_counter, 8), mms), message, mms),
                    ch.addr)
  IN  IF s1.err # "Ok" THEN [ch |-> ch, sk |-> s1]
      ELSE [ch |-> [ch EXCEPT !.channel_type.messages =
                                 Append(@, Some([last_sent |-> now, data |-> message])),
                              !.channel_type.seq_counter = @ + 1],
            sk |-> s1]

\* the packet of one encoded symbol: sequence, symbol count, index, length, symbol
FecPacket(seq_counter, num_source_symbols, index, message, symbol) ==
  to_be_bytes(seq_counter, 8) \o to_be_bytes(num_source_symbols, 4)
    \o <<index % 256>> \o to_be_bytes(Len(message) % 65536, 2) \o symbol

RECURSIVE SendSymbols(_, _, _, _, _)
SendSymbols(ch, packets, i, sk, mms) ==
  IF i > Len(packets) \/ sk.err # "Ok" THEN sk
  ELSE SendSymbols(ch, packets, i + 1,
                   send_to(write(channel_prefix(sk, ch.channel_id, mms), packets[i], mms),
                           ch.addr),
                   mms)

send_SendFecReliable(ch, message, sk, mms, now) ==
  LET t == ch.channel_type
      enc == encode_source_block(message, t.max_data_symbols, t.max_repair_symbols)
      packets == [i \in 1..Len(enc.symbols) |->
                    FecPacket(t.seq_counter, enc.num_source_symbols, i - 1, message,
                              enc.symbols[i])]
      s1 == SendSymbols(ch, packets, 1, sk, mms)
  IN  IF s1.err # "Ok" THEN [ch |-> ch, sk |-> s1]
      ELSE [ch |-> [ch EXCEPT !.channel_type.messages =
                                 Append(@, Some([last_sent |-> now,
                                                 symbols |-> [i \in 1..Len(packets) |->
                                                                Some(packets[i])]])),
                              !.channel_type.seq_counter = @ + 1],
            sk |-> s1]

Channel_send(ch, message, sk, mms, now) ==
  LET s0 == channel_prefix(sk, ch.channel_id, mms)
      kind == ch.channel_type.kind
  IN  IF s0.err # "Ok" THEN [ch |-> ch, sk |-> s0]
      ELSE CASE kind \in {"ReceiveUnreliable", "ReceiveReliable", "ReceiveFecReliable"} ->
                  [ch |-> ch, sk |-> [s0 EXCEPT !.err = "SendOnReceiveChannel"]]
             [] kind = "SendUnreliable" -> send_SendUnreliable(ch, message, s0, mms)
             [] kind = "SendReliable" -> send_SendReliable(ch, message, s0, mms, now)
             [] kind = "SendFecReliable" -> send_SendFecReliable(ch, message, s0, mms, now)

\* ---- Channel::receive: the channel, the socket and the messages returned
\* receive_SendReliable with the acknowledged slots left in the ring
receive_SendReliable_untrimmed(ch, message, sk) ==
  LET t == ch.channel_type
      bytes == Get(message, 0, 8)
      seq == from_be_bytes(Unwrap(bytes))
      idx == seq - t.messages_start_seq
      same == [ch |-> ch, sk |-> sk, out |-> <<>>]
  IN  IF IsNone(bytes) THEN same
      ELSE IF seq < t.messages_start_seq THEN same
      ELSE IF idx >= Len(t.messages) THEN same
      ELSE [ch |-> [ch EXCEPT !.channel_type.messages[idx + 1] = None],
            sk |-> sk, out |-> <<>>]

receive_SendReliable(ch, message, sk) ==
  LET t == ch.channel_type
      bytes == Get(message, 0, 8)
      seq == from_be_bytes(Unwrap(bytes))
      idx == seq - t.messages_start_seq
      marked == [t.messages EXCEPT ![idx + 1] = None]
      n == Leading([k \in DOMAIN marked |-> IsNone(marked[k])])
      same == [ch |-> ch, sk |-> sk, out |-> <<>>]
  IN  IF IsNone(bytes) THEN same
      ELSE IF seq < t.messages_start_seq THEN same
      ELSE IF idx >= Len(t.messages) THEN same
      ELSE [ch |-> [ch EXCEPT !.channel_type.messages = DropFront(marked, n),
                              !.channel_type.messages_start_seq = @ + n],
            sk |-> sk, out |-> <<>>]

IsFalse(b) == b = FALSE

\* receive_ReceiveReliable without the test of the slot
receive_ReceiveReliable_replay(ch, message, sk) ==
  LET t == ch.channel_type
      bytes == Get(message, 0, 8)
      seq == from_be_bytes(Unwrap(bytes))
      acked == [ch EXCEPT !.channel_type.acks_to_send = Append(@, seq)]
      i == seq - t.received_start_seq
      grown == GrowTo(t.received, i, FALSE)
      seen == [grown EXCEPT ![i + 1] = TRUE]
      n == Leading([k \in DOMAIN seen |-> IsFalse(seen[k])])
  IN  IF IsNone(bytes) THEN [ch |-> ch, sk |-> sk, out |-> <<>>]
      ELSE IF seq < t.received_start_seq THEN [ch |-> acked, sk |-> sk, out |-> <<>>]
      ELSE [ch |-> [acked EXCEPT !.channel_type.received = DropFront(seen, n),
                                 !.channel_type.received_start_seq = @ + n],
            sk |-> sk, out |-> <<Tail_from(message, 8)>>]

\* receive_ReceiveReliable with no acknowledgement for a frame below the window
receive_ReceiveReliable_quiet(ch, message, sk) ==
  LET t == ch.channel_type
      bytes == Get(message, 0, 8)
      seq == from_be_bytes(Unwrap(bytes))
      acked == [ch EXCEPT !.channel_type.acks_to_send = Append(@, seq)]
      i == seq - t.received_start_seq
      grown == GrowTo(t.received, i, FALSE)
      seen == [grown EXCEPT ![i + 1] = TRUE]
      n == Leading([k \in DOMAIN seen |-> IsFalse(seen[k])])
  IN  IF IsNone(bytes) THEN [ch |-> ch, sk |-> sk, out |-> <<>>]
      ELSE IF seq < t.received_start_seq THEN [ch |-> ch, sk |-> sk, out |-> <<>>]
      ELSE IF grown[i + 1]
           THEN [ch |-> [acked EXCEPT !.channel_type.received = grown],
                 sk |-> sk, out |-> <<>>]
      ELSE [ch |-> [acked EXCEPT !.channel_type.received = DropFront(seen, n),
                                 !.channel_type.received_start_seq = @ + n],
            sk |-> sk, out |-> <<Tail_from(message, 8)>>]

\* receive_ReceiveReliable with received_start_seq left where it was
receive_ReceiveReliable_unshifted(ch, message, sk) ==
  LET t == ch.channel_type
      bytes == Get(message, 0, 8)
      seq == from_be_bytes(Unwrap(bytes))
      acked == [ch EXCEPT !.channel_type.acks_to_send = Append(@, seq)]
      i == seq - t.received_start_seq
      grown == GrowTo(t.received, i, FALSE)
      seen == [grown EXCEPT ![i + 1] = TRUE]
      n == Leading([k \in DOMAIN seen |-> IsFalse(seen[k])])
  IN  IF IsNone(bytes) THEN [ch |-> ch, sk |-> sk, out |-> <<>>]
      ELSE IF seq < t.received_start_seq THEN [ch |-> acked, sk |-> sk, out |-> <<>>]
      ELSE IF grown[i + 1]
           THEN [ch |-> [acked EXCEPT !.channel_type.received = grown],
                 sk |-> sk, out |-> <<>>]
      ELSE [ch |-> [acked EXCEPT !.channel_type.received = DropFront(seen, n)],
            sk |-> sk, out |-> <<Tail_from(message, 8)>>]

receive_ReceiveReliable(ch, message, sk) ==
  LET t == ch.channel_type
      bytes == Get(message, 0, 8)
      seq == from_be_bytes(Unwrap(bytes))
      acked == [ch EXCEPT !.channel_type.acks_to_send = Append(@, seq)]
      i == seq - t.received_start_seq
      grown == GrowTo(t.received, i, FALSE)
      seen == [grown EXCEPT ![i + 1] = TRUE]
      n == Leading([k \in DOMAIN seen |-> IsFalse(seen[k])])
  IN  IF IsNone(bytes) THEN [ch |-> ch, sk |-> sk, out |-> <<>>]
      ELSE IF seq < t.received_start_seq THEN [ch |-> acked, sk |-> sk, out |-> <<>>]
      ELSE IF grown[i + 1]
           THEN [ch |-> [acked EXCEPT !.channel_type.received = grown],
                 sk |-> sk, out |-> <<>>]
      ELSE [ch |-> [acked EXCEPT !.channel_type.received = DropFront(seen, n),
                                 !.channel_type.received_start_seq = @ + n],
            sk |-> sk, out |-> <<Tail_from(message, 8)>>]

\* receive_FecWholeAck with one slot popped for each acknowledgement
receive_FecWholeAck_shift(ch, message, sk) ==
  LET t == ch.channel_type
      seq_bytes == Get(message, 1, 9)
      seq_id == from_be_bytes(Unwrap(seq_bytes))
      idx == seq_id - t.messages_start_seq
      marked == [t.messages EXCEPT ![idx + 1] = None]
      same == [ch |-> ch, sk |-> sk, out |-> <<>>]
  IN  IF IsNone(seq_bytes) THEN same
      ELSE IF seq_id < t.messages_start_seq THEN same
      ELSE IF idx >= Len(t.messages) THEN same
      ELSE [ch |-> [ch EXCEPT !.channel_type.messages = DropFront(marked, 1),
                              !.channel_type.messages_start_seq = @ + 1],
            sk |-> sk, out |-> <<>>]

\* SendFecReliable, first byte 0: whole message received acknowledgement
receive_FecWholeAck(ch, message, sk) ==
  LET t == ch.channel_type
      seq_bytes == Get(message, 1, 9)
      seq_id == from_be_bytes(Unwrap(seq_bytes))
      idx == seq_id - t.messages_start_seq
      marked == [t.messages EXCEPT ![idx + 1] = None]
      n == Leading([k \in DOMAIN marked |-> IsNone(marked[k])])
      same == [ch |-> ch, sk |-> sk, out |-> <<>>]
  IN  IF IsNone(seq_bytes) THEN same
      ELSE IF seq_id < t.messages_start_seq THEN same
      ELSE IF idx >= Len(t.messages) THEN same
      ELSE [ch |-> [ch EXCEPT !.channel_type.messages = DropFront(marked, n),
                              !.channel_type.messages_start_seq = @ + n],
            sk |-> sk, out |-> <<>>]

\* SendFecReliable, first byte 1: single symbol received acknowledgement
receive_FecSymbolAck(ch, message, sk) ==
  LET t == ch.channel_type
      seq_bytes == Get(message, 1, 9)
      index_byte == Get(message, 9, 10)
      seq_id == from_be_bytes(Unwrap(seq_bytes))
      symbol_index == Unwrap(index_byte)[1]
      idx == seq_id - t.messages_start_seq
      slot == t.messages[idx + 1]
      symbols == [Unwrap(slot).symbols EXCEPT ![symbol_index + 1] = None]
      cleared == [t.messages EXCEPT ![idx + 1] = None]
      n == Leading([k \in DOMAIN cleared |-> IsSome(cleared[k])])
      same == [ch |-> ch, sk |-> sk, out |-> <<>>]
  IN  IF IsNone(seq_bytes) \/ IsNone(index_byte) THEN same
      ELSE IF seq_id < t.messages_start_seq THEN same
      ELSE IF idx >= Len(t.messages) THEN same
      ELSE IF IsNone(slot) THEN same
      ELSE IF symbol_index >= Len(Unwrap(slot).symbols) THEN same
      ELSE IF \E k \in 1..Len(symbols) : IsSome(symbols[k])
           THEN [ch |-> [ch EXCEPT !.channel_type.messages[idx + 1] =
                                      Some([Unwrap(slot) EXCEPT !.symbols = symbols])],
                 sk |-> sk, out |-> <<>>]
      ELSE [ch |-> [ch EXCEPT !.channel_type.messages = DropFront(cleared, n),
                              !.channel_type.messages_start_seq = @ + n],
            sk |-> sk, out |-> <<>>]

receive_SendFecReliable(ch, message, sk) ==
  IF Len(message) >= 1 /\ message[1] = 0 THEN receive_FecWholeAck(ch, message, sk)
  ELSE IF Len(message) >= 1 /\ message[1] = 1 THEN receive_FecSymbolAck(ch, message, sk)
  ELSE [ch |-> ch, sk |-> sk, out |-> <<>>]

\* ReceiveFecReliable slots: NotSeen, Receiving {decoder}, Received
NotSeen == [state |-> "NotSeen", decoder |-> None]
Receiving(decoder) == [state |-> "Receiving", decoder |-> Some(decoder)]
Received == [state |-> "Received", decoder |-> None]
IsReceived(slot) == slot.state = "Received"

\* ack for full message received: byte 0, sequence
SendWholeAck(ch, seq_id, sk, mms) ==
  send_to(write(write(channel_prefix(sk, ch.channel_id, mms), <<0>>, mms),
                to_be_bytes(seq_id, 8), mms), ch.addr)

\* ack for single symbol received: byte 1, sequence, symbol index
SendSymbolAck(ch, seq_id, symbol_index, sk, mms) ==
  send_to(write(write(write(channel_prefix(sk, ch.channel_id, mms), <<1>>, mms),
                      to_be_bytes(seq_id, 8), mms), <<symbol_index>>, mms), ch.addr)

\* receive_ReceiveFecReliable with the slot of a decoded message left Receiving
receive_ReceiveFecReliable_forgetful(ch, message, sk, mms) ==
  LET t == ch.channel_type
      seq_id == from_be_bytes(SubSeq(message, 1, 8))
      num_source_symbols == from_be_bytes(SubSeq(message, 9, 12))
      symbol_index == message[13]
      source_block_length == from_be_bytes(SubSeq(message, 14, 15))
      index == seq_id - t.messages_start_seq
      grown == GrowTo(t.messages, index, NotSeen)
      started == IF grown[index + 1].state = "NotSeen"
                 THEN [grown EXCEPT ![index + 1] =
                         Receiving(SourceBlockDecoder_new(num_source_symbols))]
                 ELSE grown
      slot == started[index + 1]
      decoder == push_encoding_symbol(Unwrap(slot.decoder), Tail_from(message, 15),
                                      symbol_index)
      pushed == [started EXCEPT ![index + 1] = Receiving(decoder)]
      done == pushed
      n == Leading([k \in DOMAIN done |-> IsReceived(done[k])])
      s1 == SendSymbolAck(ch, seq_id, symbol_index, sk, mms)
      s2 == SendWholeAck(ch, seq_id, s1, mms)
  IN  IF Len(message) < 15 THEN [ch |-> ch, sk |-> sk, out |-> <<>>]
      ELSE IF seq_id < t.messages_start_seq
           THEN [ch |-> ch, sk |-> SendWholeAck(ch, seq_id, sk, mms), out |-> <<>>]
      ELSE IF s1.err # "Ok" THEN [ch |-> ch, sk |-> s1, out |-> <<>>]
      ELSE IF slot.state = "Received"
           THEN [ch |-> [ch EXCEPT !.channel_type.messages = started],
                 sk |-> s2, out |-> <<>>]
      ELSE IF ~fully_specified(decoder)
           THEN [ch |-> [ch EXCEPT !.channel_type.messages = pushed],
                 sk |-> s1, out |-> <<>>]
      ELSE IF s2.err # "Ok"
           THEN [ch |-> [ch EXCEPT !.channel_type.messages = done],
                 sk |-> s2, out |-> <<>>]
      ELSE [ch |-> [ch EXCEPT !.channel_type.messages = DropFront(done, n),
                              !.channel_type.messages_start_seq = @ + n],
            sk |-> s2, out |-> <<decode(decoder, source_block_length)>>]

receive_ReceiveFecReliable(ch, message, sk, mms) ==
  LET t == ch.channel_type
      seq_id == from_be_bytes(SubSeq(message, 1, 8))
      num_source_symbols == from_be_bytes(SubSeq(message, 9, 12))
      symbol_index == message[13]
      source_block_length == from_be_bytes(SubSeq(message, 14, 15))
      index == seq_id - t.messages_start_seq
      grown == GrowTo(t.messages, index, NotSeen)
      started == IF grown[index + 1].state = "NotSeen"
                 THEN [grown EXCEPT ![index + 1] =
                         Receiving(SourceBlockDecoder_new(num_source_symbols))]
                 ELSE grown
      slot == started[index + 1]
      decoder == push_encoding_symbol(Unwrap(slot.decoder), Tail_from(message, 15),
                                      symbol_index)
      pushed == [started EXCEPT ![index + 1] = Receiving(decoder)]
      done == [started EXCEPT ![index + 1] = Received]
      n == Leading([k \in DOMAIN done |-> IsReceived(done[k])])
      s1 == SendSymbolAck(ch, seq_id, symbol_index, sk, mms)
      s2 == SendWholeAck(ch, seq_id, s1, mms)
  IN  IF Len(message) < 15 THEN [ch |-> ch, sk |-> sk, out |-> <<>>]
      ELSE IF seq_id < t.messages_start_seq
           THEN [ch |-> ch, sk |-> SendWholeAck(ch, seq_id, sk, mms), out |-> <<>>]
      ELSE IF s1.err # "Ok" THEN [ch |-> ch, sk |-> s1, out |-> <<>>]
      ELSE IF slot.state = "Received"
           THEN [ch |-> [ch EXCEPT !.channel_type.messages = started],
                 sk |-> s2, out |-> <<>>]
      ELSE IF ~fully_specified(decoder)
           THEN [ch |-> [ch EXCEPT !.channel_type.messages = pushed],
                 sk |-> s1, out |-> <<>>]
      ELSE IF s2.err # "Ok"
           THEN [ch |-> [ch EXCEPT !.channel_type.messages = done],
                 sk |-> s2, out |-> <<>>]
      ELSE [ch |-> [ch EXCEPT !.channel_type.messages = DropFront(done, n),
                              !.channel_type.messages_start_seq = @ + n],
            sk |-> s2, out |-> <<decode(decoder, source_block_length)>>]

Channel_receive(ch, message, sk, mms) ==
  LET kind == ch.channel_type.kind
  IN  CASE kind = "SendUnreliable" -> [ch |-> ch, sk |-> sk, out |-> <<>>]
        [] kind = "ReceiveUnreliable" -> [ch |-> ch, sk |-> sk, out |-> <<message>>]
        [] kind = "SendReliable" -> receive_SendReliable(ch, message, sk)
        [] kind = "ReceiveReliable" -> receive_ReceiveReliable(ch, message, sk)
        [] kind = "SendFecReliable" -> receive_SendFecReliable(ch, message, sk)
        [] kind = "ReceiveFecReliable" -> receive_ReceiveFecReliable(ch, message, sk, mms)

\* ---- Channel::update
\* last_sent.elapsed().as_millis() as f32 > ping as f32 * resend_threshhold
Due(last_sent, ping, resend_threshhold, now) ==
  (now - last_sent) * resend_threshhold[2] > ping * resend_threshhold[1]

RECURSIVE Resend_SendReliable(_, _, _, _, _, _)
Resend_SendReliable(ch, i, ping, sk, mms, now) ==
  LET t == ch.channel_type
      slot == t.messages[i]
      seq == t.messages_start_seq + (i - 1)
      s1 == send_to(write(write(channel_prefix(sk, ch.channel_id, mms),
                                to_be_bytes(seq, 8), mms),
                          Unwrap(slot).data, mms), ch.addr)
  IN  IF i > Len(t.messages) \/ sk.err # "Ok" THEN [ch |-> ch, sk |-> sk]
      ELSE IF IsSome(slot) /\ Due(Unwrap(slot).last_sent, ping, t.resend_threshhold, now)
           THEN IF s1.err # "Ok" THEN [ch |-> ch, sk |-> s1]
                ELSE Resend_SendReliable(
                       [ch EXCEPT !.channel_type.messages[i] =
                                     Some([Unwrap(slot) EXCEPT !.last_sent = now])],
                       i + 1, ping, s1, mms, now)
      ELSE Resend_SendReliable(ch, i + 1, ping, sk, mms, now)

\* update_SendReliable with an RTT of 0 assumed while none is known
update_SendReliable_eager(ch, ping, sk, mms, now) ==
  Resend_SendReliable(ch, 1, IF IsSome(ping) THEN Unwrap(ping) ELSE 0, sk, mms, now)

\* update_SendReliable that never sends a payload again
update_SendReliable_idle(ch, ping, sk, mms, now) == [ch |-> ch, sk |-> sk]

update_SendReliable(ch, ping, sk, mms, now) ==
  IF IsSome(ping) THEN Resend_SendReliable(ch, 1, Unwrap(ping), sk, mms, now)
  ELSE [ch |-> ch, sk |-> sk]

RECURSIVE SendAcks(_, _, _, _, _)
SendAcks(ch, acks, i, sk, mms) ==
  IF i > Len(acks) \/ sk.err # "Ok" THEN sk
  ELSE SendAcks(ch, acks, i + 1,
                send_to(write(channel_prefix(sk, ch.channel_id, mms),
                              to_be_bytes(acks[i], 8), mms), ch.addr),
                mms)

\* acks_to_send.drain(..) leaves the list empty, also when a send fails
update_ReceiveReliable(ch, sk, mms) ==
  [ch |-> [ch EXCEPT !.channel_type.acks_to_send = <<>>],
   sk |-> SendAcks(ch, ch.channel_type.acks_to_send, 1, sk, mms)]

RECURSIVE ResendSymbols(_, _, _, _, _)
ResendSymbols(ch, symbols, k, sk, mms) ==
  IF k > Len(symbols) \/ sk.err # "Ok" THEN sk
  ELSE IF IsSome(symbols[k])
       THEN ResendSymbols(ch, symbols, k + 1,
                          send_to(write(channel_prefix(sk, ch.channel_id, mms),
                                        Unwrap(symbols[k]), mms), ch.addr),
                          mms)
       ELSE ResendSymbols(ch, symbols, k + 1, sk, mms)

RECURSIVE Resend_SendFecReliable(_, _, _, _, _, _)
Resend_SendFecReliable(ch, i, ping, sk, mms, now) ==
  LET t == ch.channel_type
      slot == t.messages[i]
      s1 == ResendSymbols(ch, Unwrap(slot).symbols, 1, sk, mms)
  IN  IF i > Len(t.messages) \/ sk.err # "Ok" THEN [ch |-> ch, sk |-> sk]
      ELSE IF IsSome(slot) /\ Due(Unwrap(slot).last_sent, ping, t.resend_threshhold, now)
           THEN IF s1.err # "Ok" THEN [ch |-> ch, sk |-> s1]
                ELSE Resend_SendFecReliable(
                       [ch EXCEPT !.channel_type.messages[i] =
                                     Some([Unwrap(slot) EXCEPT !.last_sent = now])],
                       i + 1, ping, s1, mms, now)
      ELSE Resend_SendFecReliable(ch, i + 1, ping, sk, mms, now)

update_SendFecReliable(ch, ping, sk, mms, now) ==
  IF IsSome(ping) THEN Resend_SendFecReliable(ch, 1, Unwrap(ping), sk, mms, now)
  ELSE [ch |-> ch, sk |-> sk]

Channel_update(ch, ping, sk, mms, now) ==
  LET kind == ch.channel_type.kind
  IN  CASE kind = "SendReliable" -> update_SendReliable(ch, ping, sk, mms, now)
        [] kind = "ReceiveReliable" -> update_ReceiveReliable(ch, sk, mms)
        [] kind = "SendFecReliable" -> update_SendFecReliable(ch, ping, sk, mms, now)
        [] OTHER -> [ch |-> ch, sk |-> sk]

\* ------------------------------------------------------------- Connection
U128 == 2 ^ U128Bits

Connection_new(config, addr, instance, sk, now) ==
  [conn |-> [addr |-> addr,
             other_instance |-> None,
             creation_time |-> now,
             ping_memory |-> <<>>,
             average_ping |-> None,
             heartbeat_interval |-> config.heartbeat_interval,
             last_received_keep_alive |-> now,
             last_sent_keep_alive |-> now,
             channels |-> [i \in 1..Len(config.channels) |->
                             Channel_new(config.channels[i], i - 1, addr)]],
   sk |-> heartbeat(sk, addr, instance, 0, config.max_message_size)]

\* channel.update has returned r for channel i
ChannelUpdated(conn, i, r) == [conn |-> [conn EXCEPT !.channels[i] = r.ch], sk |-> r.sk]

\* for channel in self.channels.iter_mut() { channel.update(..)? } over the
\* channels lo..hi in turn, the range halved so that long channel lists
\* nest to a small depth
RECURSIVE UpdateRange(_, _, _, _, _, _)
UpdateRest(r, lo, hi, mms, now) == UpdateRange(r.conn, lo, hi, r.sk, mms, now)

UpdateRange(conn, lo, hi, sk, mms, now) ==
  IF lo > hi \/ sk.err # "Ok" THEN [conn |-> conn, sk |-> sk]
  ELSE IF lo = hi
       THEN ChannelUpdated(conn, lo,
                           Channel_update(conn.channels[lo], conn.average_ping, sk,
                                          mms, now))
  ELSE UpdateRest(UpdateRange(conn, lo, (lo + hi) \div 2, sk, mms, now),
                  (lo + hi) \div 2 + 1, hi, mms, now)

UpdateChannels(conn, i, sk, mms, now) ==
  UpdateRange(conn, i, Len(conn.channels), sk, mms, now)

\* Connection_update without the heartbeat
Connection_update_silent(conn, instance, sk, mms, now) ==
  UpdateChannels(conn, 1, sk, mms, now)

Connection_update(conn, instance, sk, mms, now) ==
  LET beat == now - conn.last_sent_keep_alive > conn.heartbeat_interval
      s1 == IF beat THEN heartbeat(sk, conn.addr, instance, now - conn.creation_time, mms)
            ELSE sk
      c1 == IF beat /\ s1.err = "Ok" THEN [conn EXCEPT !.last_sent_keep_alive = now]
            ELSE conn
  IN  IF s1.err # "Ok" THEN [conn |-> conn, sk |-> s1]
      ELSE UpdateChannels(c1, 1, s1, mms, now)

\* ------------------------------------------------------------------ Events
EvConnection(addr) == [type |-> "Connection", addr |-> addr]
EvDisconnection(addr, reason) == [type |-> "Disconnection", addr |-> addr, reason |-> reason]
EvMessage(addr, channel_id, data) ==
  [type |-> "Message", addr |-> addr, channel_id |-> channel_id, data |-> data]

\* ------------------------------------------------------------------ Client
\* The state an operation works on: the connection table, the event queue,
\* the socket, whether the thread has panicked, and the addresses for which
\* Connection::new was inserted during the operation.
NoConnections == [a \in {} |-> None]

Remove(connections, addr) ==
  [a \in DOMAIN connections \ {addr} |-> connections[a]]

Insert(connections, addr, conn) ==
  [a \in DOMAIN connections \cup {addr} |-> IF a = addr THEN conn ELSE connections[a]]

RECURSIVE SumSeq(_)
SumSeq(q) == IF Len(q) = 0 THEN 0 ELSE Head(q) + SumSeq(Tail(q))

\* time_response: the RTT sample of a tag-2 echo.  The subtraction and the sum
\* are unsigned: with overflow checks they panic, without they wrap.
ApplyTimeResponse(st, config, origin, time, now, overflow_checks) ==
  LET conn == st.connections[origin]
      elapsed == now - conn.creation_time
      diff == (elapsed - time) % U128
      kept == IF Len(conn.ping_memory) >= config.ping_memory_length
                 /\ Len(conn.ping_memory) > 0
              THEN Tail(conn.ping_memory)
              ELSE conn.ping_memory
      memory == Append(kept, diff)
      total == SumSeq(memory)
  IN  IF overflow_checks /\ (time > elapsed \/ total >= U128)
      THEN [st EXCEPT !.panicked = TRUE]
      ELSE [st EXCEPT !.connections[origin].ping_memory = memory,
                      !.connections[origin].average_ping =
                         Some((total % U128) \div Len(memory))]

\* ApplyHeartbeat with the stored instance overwritten by the one received
ApplyHeartbeat_overwrite(st, config, origin, instance, time) ==
  LET s1 == [st EXCEPT !.connections[origin].other_instance = Some(instance)]
  IN  [s1 EXCEPT !.sk = send_to(write(write(clear_buffer(@), <<2>>,
                                            config.max_message_size),
                                      time, config.max_message_size), origin)]

\* heartbeat_data: instance check, then the tag-2 echo of the timestamp
ApplyHeartbeat(st, config, origin, instance, time) ==
  LET conn == st.connections[origin]
      s1 == IF IsNone(conn.other_instance)
            THEN [st EXCEPT !.connections[origin].other_instance = Some(instance)]
            ELSE IF instance # Unwrap(conn.other_instance)
                 THEN [st EXCEPT !.connections = Remove(@, origin),
                                 !.events = Append(@, EvDisconnection(origin,
                                                        "OriginChangedInstance"))]
                 ELSE st
  IN  [s1 EXCEPT !.sk = send_to(write(write(clear_buffer(@), <<2>>,
                                            config.max_message_size),
                                      time, config.max_message_size), origin)]

RECURSIVE PushMessages(_, _, _, _)
PushMessages(events, origin, channel_id, out) ==
  IF Len(out) = 0 THEN events
  ELSE PushMessages(Append(events, EvMessage(origin, channel_id, Head(out))),
                    origin, channel_id, Tail(out))

\* Received_by with the Message events numbered one channel up
Received_by_shifted(st, origin, channel_id, r) ==
  [st EXCEPT !.connections[origin].channels[channel_id + 1] = r.ch,
             !.sk = r.sk,
             !.events = IF r.sk.err = "Ok"
                        THEN PushMessages(@, origin, channel_id + 1, r.out)
                        ELSE @]

\* for message in channel.receive(message, &mut self.socket)? { push }: r is
\* what the receive call returned
Received_by(st, origin, channel_id, r) ==
  [st EXCEPT !.connections[origin].channels[channel_id + 1] = r.ch,
             !.sk = r.sk,
             !.events = IF r.sk.err = "Ok"
                        THEN PushMessages(@, origin, channel_id, r.out)
                        ELSE @]

ApplyChannelMessage(st, config, origin, channel_id, message) ==
  IF channel_id >= Len(st.connections[origin].channels) THEN st
  ELSE Received_by(st, origin, channel_id,
                   Channel_receive(st.connections[origin].channels[channel_id + 1],
                                   message, st.sk, config.max_message_size))

\* insert(Connection::new(..)?) and push(Event::Connection(addr)): new is
\* what Connection::new returned
Inserted(st, addr, new) ==
  IF new.sk.err # "Ok" THEN [st EXCEPT !.sk = new.sk]
  ELSE [st EXCEPT !.connections = Insert(@, addr, new.conn),
                  !.sk = new.sk,
                  !.events = Append(@, EvConnection(addr)),
                  !.created = @ \cup {addr}]

\* Vacant with the listen flag ignored
Vacant_listening(st, config, instance, origin, now) ==
  Inserted(st, origin, Connection_new(config, origin, instance, st.sk, now))

\* Vacant that refuses also when listening
Vacant_refusing(st, config, instance, origin, now) ==
  [st EXCEPT !.sk = close(@, origin, config.max_message_size)]

\* Entry::Vacant: a datagram from an address that has no Connection.  A
\* listening endpoint inserts one; any other answers with a Close packet and
\* goes on to the next datagram.
Vacant(st, config, instance, origin, now) ==
  IF ~config.listen
  THEN [st EXCEPT !.sk = close(@, origin, config.max_message_size)]
  ELSE Inserted(st, origin, Connection_new(config, origin, instance, st.sk, now))

\* connection.last_received_keep_alive = Instant::now()
KeptAlive(st, origin, now) ==
  [st EXCEPT !.connections[origin].last_received_keep_alive = now]

\* What the receive loop does with a valid message once the table has been
\* looked up: entered is the state the lookup left, with a Connection for
\* origin unless the lookup answered with a Close packet or failed.
Dispatch(entered, config, message, origin, now, overflow_checks) ==
  IF origin \notin DOMAIN entered.connections THEN entered
  ELSE IF message[1] = 0
       THEN ApplyHeartbeat(KeptAlive(entered, origin, now), config, origin,
                           Unwrap(Get(message, 1, 17)), Unwrap(Get(message, 17, 33)))
  ELSE IF message[1] = 2
       THEN ApplyTimeResponse(KeptAlive(entered, origin, now), config, origin,
                              from_be_bytes(Unwrap(Get(message, 1, 17))), now,
                              overflow_checks)
  ELSE ApplyChannelMessage(KeptAlive(entered, origin, now), config, origin,
                           message[1] - CHANNEL_OFFSET, Tail_from(message, 1))

\* HandleDatagram with every channel tag taken for a valid message
HandleDatagram_lenient(st, config, instance, message, origin, now, overflow_checks) ==
  LET tag == message[1]
      known == origin \in DOMAIN st.connections
      valid_message ==
        /\ Len(message) >= 1
        /\ CASE tag = 0 -> IsSome(Get(message, 1, 17)) /\ IsSome(Get(message, 17, 33))
             [] tag = 1 -> FALSE
             [] tag = 2 -> IsSome(Get(message, 1, 17))
             [] OTHER -> TRUE
  IN  IF Len(message) >= 1 /\ tag = 1
      THEN IF known
           THEN [st EXCEPT !.connections = Remove(@, origin),
                           !.events = Append(@, EvDisconnection(origin, "Other"))]
           ELSE st
      ELSE IF ~valid_message THEN st
      ELSE Dispatch(IF known THEN st ELSE Vacant(st, config, instance, origin, now),
                    config, message, origin, now, overflow_checks)

\* HandleDatagram with a Close packet from an unknown address answered
HandleDatagram_reply(st, config, instance, message, origin, now, overflow_checks) ==
  LET tag == message[1]
      known == origin \in DOMAIN st.connections
      valid_message ==
        /\ Len(message) >= 1
        /\ CASE tag = 0 -> IsSome(Get(message, 1, 17)) /\ IsSome(Get(message, 17, 33))
             [] tag = 1 -> FALSE
             [] tag = 2 -> IsSome(Get(message, 1, 17))
             [] OTHER -> tag - CHANNEL_OFFSET < Len(config.channels)
  IN  IF Len(message) >= 1 /\ tag = 1
      THEN IF known
           THEN [st EXCEPT !.connections = Remove(@, origin),
                           !.events = Append(@, EvDisconnection(origin, "Other"))]
           ELSE [st EXCEPT !.sk = close(@, origin, config.max_message_size)]
      ELSE IF ~valid_message THEN st
      ELSE Dispatch(IF known THEN st ELSE Vacant(st, config, instance, origin, now),
                    config, message, origin, now, overflow_checks)

\* One pass of the receive loop of Client::update: the datagram `message`
\* from `origin`.
HandleDatagram(st, config, instance, message, origin, now, overflow_checks) ==
  LET tag == message[1]
      \* message.get(1..17): the instance of a heartbeat, the time of an echo
      instance_bytes == Get(message, 1, 17)
      time_bytes == Get(message, 17, 33)
      known == origin \in DOMAIN st.connections
      closed == IF known
                THEN [st EXCEPT !.connections = Remove(@, origin),
                                !.events = Append(@, EvDisconnection(origin, "Other"))]
                ELSE st
      valid_message ==
        /\ Len(message) >= 1
        /\ CASE tag = 0 -> IsSome(instance_bytes) /\ IsSome(time_bytes)
             [] tag = 1 -> FALSE
             [] tag = 2 -> IsSome(instance_bytes)
             [] OTHER -> tag - CHANNEL_OFFSET < Len(config.channels)
  IN  IF Len(message) >= 1 /\ tag = 1 THEN closed
      ELSE IF ~valid_message THEN st
      ELSE Dispatch(IF known THEN st ELSE Vacant(st, config, instance, origin, now),
                    config, message, origin, now, overflow_checks)

\* what one pass of the receive loop did: the datagram, the Connection of
\* its origin before and after, the events pushed and the datagrams sent
Pass(st, h, dg) ==
  LET conn(s) == IF dg.addr \in DOMAIN s.connections
                 THEN Some(s.connections[dg.addr]) ELSE None
  IN  [addr |-> dg.addr, data |-> dg.data,
       before |-> conn(st), after |-> conn(h),
       created |-> IsNone(conn(st)) /\ IsSome(conn(h)),
       pushed |-> SubSeq(h.events, Len(st.events) + 1, Len(h.events)),
       sent |-> SubSeq(h.sk.sent, Len(st.sk.sent) + 1, Len(h.sk.sent)),
       err |-> h.sk.err, panicked |-> h.panicked]

\* while let Some((message, origin)) = self.socket.receive()? { ... }
\* stops at the first error or panic; the datagrams not yet read stay queued
RECURSIVE Drain(_, _, _, _, _, _, _)
\* the loop goes on from the state h that the pass over the first datagram left
Looped(st, h, config, instance, inbox, now, overflow_checks, trace) ==
  Drain(h, config, instance, Tail(inbox), now, overflow_checks,
        Append(trace, Pass(st, h, Head(inbox))))

Drain(st, config, instance, inbox, now, overflow_checks, trace) ==
  IF Len(inbox) = 0 \/ st.sk.err # "Ok" \/ st.panicked
  THEN [st |-> st, inbox |-> inbox, trace |-> trace]
  ELSE Looped(st,
              HandleDatagram(st, config, instance, Head(inbox).data, Head(inbox).addr,
                             now, overflow_checks),
              config, instance, inbox, now, overflow_checks, trace)

\* TimeoutSweep with the comparison made inclusive
RECURSIVE TimeoutSweep_inclusive(_, _, _, _)
TimeoutSweep_inclusive(st, config, order, now) ==
  IF Len(order) = 0 THEN st
  ELSE LET addr == Head(order)
           expired == /\ addr \in DOMAIN st.connections
                      /\ now - st.connections[addr].last_received_keep_alive
                           >= config.timeout
       IN  TimeoutSweep_inclusive(
             IF expired
             THEN [st EXCEPT !.connections = Remove(@, addr),
                             !.events = Append(@, EvDisconnection(addr, "Timeout"))]
             ELSE st,
             config, Tail(order), now)

\* timeout clients, in the iteration order of the table
RECURSIVE TimeoutSweep(_, _, _, _)
TimeoutSweep(st, config, order, now) ==
  IF Len(order) = 0 THEN st
  ELSE LET addr == Head(order)
           expired == /\ addr \in DOMAIN st.connections
                      /\ now - st.connections[addr].last_received_keep_alive
                           > config.timeout
       IN  TimeoutSweep(IF expired
                        THEN [st EXCEPT !.connections = Remove(@, addr),
                                        !.events = Append(@, EvDisconnection(addr,
                                                                             "Timeout"))]
                        ELSE st,
                        config, Tail(order), now)

\* the table and the socket once connection.update has returned r
Updated(st, addr, r) == [st EXCEPT !.connections[addr] = r.conn, !.sk = r.sk]

\* update clients, in the iteration order of the table
RECURSIVE UpdateConnections(_, _, _, _, _)
UpdateConnections(st, config, instance, order, now) ==
  IF Len(order) = 0 \/ st.sk.err # "Ok" THEN st
  ELSE UpdateConnections(IF Head(order) \in DOMAIN st.connections
                         THEN Updated(st, Head(order),
                                      Connection_update(st.connections[Head(order)],
                                                        instance, st.sk,
                                                        config.max_message_size, now))
                         ELSE st,
                         config, instance, Tail(order), now)

\* Client::update up to its return statement
\* drained: the table the receive loop left, when it came to its end
\* what follows the receive loop, d being what the loop left
Drained(d, config, instance, order, now) ==
  IF d.st.sk.err # "Ok" \/ d.st.panicked
  THEN [st |-> d.st, inbox |-> d.inbox, trace |-> d.trace, drained |-> None]
  ELSE [st |-> UpdateConnections(TimeoutSweep(d.st, config, order, now), config,
                                 instance, order, now),
        inbox |-> d.inbox, trace |-> d.trace, drained |-> Some(d.st.connections)]

Client_update(st, config, instance, inbox, order, now, overflow_checks) ==
  Drained(Drain(st, config, instance, inbox, now, overflow_checks, <<>>),
          config, instance, order, now)

\* Client_connect without the Connection event
Client_connect_silent(st, config, instance, addr, now) ==
  [Inserted(st, addr, Connection_new(config, addr, instance, st.sk, now))
     EXCEPT !.events = st.events]

Client_connect(st, config, instance, addr, now) ==
  Inserted(st, addr, Connection_new(config, addr, instance, st.sk, now))

\* Client_disconnect without the Disconnection event
Client_disconnect_quiet(st, config, addr) ==
  IF addr \in DOMAIN st.connections
  THEN LET s1 == close(st.sk, addr, config.max_message_size)
       IN  [st EXCEPT !.connections = Remove(@, addr),
                      !.sk = s1,
                      !.value = IF s1.err = "Ok" THEN Some(TRUE) ELSE None]
  ELSE [st EXCEPT !.value = Some(FALSE)]

\* value: the bool that Ok carries
Client_disconnect(st, config, addr) ==
  IF addr \in DOMAIN st.connections
  THEN LET s1 == close(st.sk, addr, config.max_message_size)
       IN  [st EXCEPT !.connections = Remove(@, addr),
                      !.sk = s1,
                      !.events = IF s1.err = "Ok"
                                 THEN Append(@, EvDisconnection(addr, "Kicked"))
                                 ELSE @,
                      !.value = IF s1.err = "Ok" THEN Some(TRUE) ELSE None]
  ELSE [st EXCEPT !.value = Some(FALSE)]

\* for (addr, _) in mem::replace(&mut self.connections, HashMap::new())
RECURSIVE CloseAll(_, _, _)
CloseAll(st, config, order) ==
  IF Len(order) = 0 \/ st.sk.err # "Ok" THEN st
  ELSE LET s1 == close(st.sk, Head(order), config.max_message_size)
       IN  CloseAll([st EXCEPT !.sk = s1,
                               !.events = IF s1.err = "Ok"
                                          THEN Append(@, EvDisconnection(Head(order),
                                                                         "Kicked"))
                                          ELSE @],
                    config, Tail(order))

Client_disconnect_all(st, config, order) ==
  CloseAll([st EXCEPT !.connections = NoConnections], config, order)

\* the table and the socket once channel.send has returned r
Sent_on(st, addr, channel_id, r) ==
  [st EXCEPT !.connections[addr].channels[channel_id + 1] = r.ch, !.sk = r.sk]

Client_send(st, config, addr, channel_id, message, now) ==
  IF addr \notin DOMAIN st.connections
  THEN [st EXCEPT !.sk.err = "AddressNotConnected"]
  ELSE IF channel_id >= Len(st.connections[addr].channels)
       THEN [st EXCEPT !.sk.err = "InvalidChannelId"]
  ELSE Sent_on(st, addr, channel_id,
               Channel_send(st.connections[addr].channels[channel_id + 1], message,
                            st.sk, config.max_message_size, now))

\* Client_send_single that forwards to some peer when there are several
Client_send_single_any(st, config, channel_id, message, now) ==
  IF Cardinality(DOMAIN st.connections) = 0
  THEN [st EXCEPT !.sk.err = "SendSingleInvalid"]
  ELSE Client_send(st, config, CHOOSE a \in DOMAIN st.connections : TRUE,
                   channel_id, message, now)

Client_send_single(st, config, channel_id, message, now) ==
  IF Cardinality(DOMAIN st.connections) # 1
  THEN [st EXCEPT !.sk.err = "SendSingleInvalid"]
  ELSE Client_send(st, config, CHOOSE a \in DOMAIN st.connections : TRUE,
                   channel_id, message, now)

Client_get_ping(st, connection) ==
  IF connection \in DOMAIN st.connections
  THEN [err |-> "Ok", value |-> st.connections[connection].average_ping]
  ELSE [err |-> "AddressNotConnected", value |-> None]

\* ============================================================== the system
\* clients: the Client of each running endpoint; config: its ClientConfig;
\* inbox: the datagrams queued on its socket; net: the datagrams in flight
\* between running endpoints; now: the clock (ms); overflow_checks: whether
\* the build panics on integer overflow (debug) or wraps (release);
\* last: what the last operation did; delivered: per endpoint and peer, the
\* (channel, sequence) pairs whose payload the current Connection has
\* returned; redelivered: whether one of them was returned twice.
\* faults: how many more operations may meet an I/O error.
\* due: the endpoints that have not called update since the clock last moved.
VARIABLES clients, config, inbox, net, now, overflow_checks, faults, last, delivered,
          redelivered, due

vars == <<clients, config, inbox, net, now, overflow_checks, faults, last, delivered,
          redelivered, due>>

Addr == {"A", "B", "C"}
Endpoints == DOMAIN clients
Tracked(e) == DOMAIN clients[e].connections

U8_MAX == 255

\* Client::bind with every configuration accepted
Client_bind_unchecked(cfg, instance, bound) ==
  IF ~bound THEN [err |-> "IoError", client |-> None]
  ELSE [err |-> "Ok",
        client |-> Some([instance |-> to_be_bytes(instance, 16),
                         connections |-> NoConnections, events |-> <<>>,
                         panicked |-> FALSE])]

\* Client::bind: bound tells whether Socket::new got the socket bound
Client_bind(cfg, instance, bound) ==
  IF Len(cfg.channels) > U8_MAX - CHANNEL_OFFSET
  THEN [err |-> "TooManyChannels", client |-> None]
  ELSE IF ~bound THEN [err |-> "IoError", client |-> None]
  ELSE [err |-> "Ok",
        client |-> Some([instance |-> to_be_bytes(instance, 16),
                         connections |-> NoConnections, events |-> <<>>,
                         panicked |-> FALSE])]

OpState(c, fail) ==
  [connections |-> c.connections, events |-> c.events,
   sk |-> NewSocket(<<>>, fail), panicked |-> FALSE, created |-> {}, value |-> None]

\* the Client after an operation that left the state st
Settle(c, st, events) ==
  [instance |-> c.instance, connections |-> st.connections, events |-> events,
   panicked |-> st.panicked]

\* the datagrams of `sent` addressed to running endpoints enter the network
Routed(e, sent) ==
  {[src |-> e, dst |-> sent[i].addr, data |-> sent[i].data] :
     i \in {j \in 1..Len(sent) : sent[j].addr \in Endpoints}}

\* the orders in which the table of e may be iterated in its next update:
\* those of the addresses it tracks or has a datagram queued from
Orders(e) ==
  LET others == Tracked(e) \cup {inbox[e][i].addr : i \in DOMAIN inbox[e]}
  IN  {o \in [1..Cardinality(others) -> others] :
         \A i, j \in DOMAIN o : i # j => o[i] # o[j]}

\* ---- the record of delivered sequences
Sequenced(cfg, channel_id) ==
  cfg.channels[channel_id + 1].kind \in {"ReceiveReliable", "ReceiveFecReliable"}

\* g = [d: per peer, the (channel, sequence) pairs delivered, and with each
\* the (channel, sequence, payload) triple; dup: a repeat]
RECURSIVE NoteEvents(_, _, _, _)
NoteEvents(g, cfg, events, data) ==
  IF Len(events) = 0 THEN g
  ELSE LET ev == Head(events)
           key == <<ev.channel_id, from_be_bytes(SubSeq(data, 2, 9))>>
           g1 == IF ev.type # "Message"
                 THEN [g EXCEPT !.d[ev.addr] = {}]
                 ELSE IF Sequenced(cfg, ev.channel_id)
                      THEN [d |-> [g.d EXCEPT ![ev.addr] =
                                         @ \cup {key, <<key[1], key[2], ev.data>>}],
                            dup |-> g.dup \/ key \in g.d[ev.addr]]
                      ELSE g
       IN  NoteEvents(g1, cfg, Tail(events), data)

RECURSIVE NoteTrace(_, _, _)
NoteTrace(g, cfg, trace) ==
  IF Len(trace) = 0 THEN g
  ELSE NoteTrace(NoteEvents(g, cfg, Head(trace).pushed, Head(trace).data), cfg, Tail(trace))

Pushed(before, after) == SubSeq(after, Len(before) + 1, Len(after))

Result(st) == IF st.panicked THEN "panic" ELSE st.sk.err

Log(op, e, addr, channel_id, message, c, st, returned, trace) ==
  [op |-> op, ep |-> e, addr |-> addr, channel_id |-> channel_id, message |-> message,
   result |-> Result(st), sent |-> st.sk.sent, pushed |-> Pushed(c.events, st.events),
   returned |-> returned, created |-> st.created, trace |-> trace, drained |-> None,
   value |-> st.value]

FailPoints == IF faults > 0 THEN {-1, 0, 1} ELSE {-1}

Charge(st) == IF st.sk.err = "IoError" THEN faults - 1 ELSE faults

RECURSIVE TracePushed(_)
TracePushed(trace) ==
  IF Len(trace) = 0 THEN <<>> ELSE Head(trace).pushed \o TracePushed(Tail(trace))

\* what every operation of endpoint e does to the system around the Client:
\* c the Client before, st the state the operation left, events the queue it
\* leaves, trace what each datagram of its receive loop did
Finish(e, c, st, events, log, trace) ==
  LET pushed == Pushed(c.events, st.events)
      outside == Pushed(TracePushed(trace), pushed)
      g == NoteEvents(NoteTrace([d |-> delivered[e], dup |-> redelivered], config[e],
                                trace),
                      config[e], outside, <<>>)
  IN  /\ clients' = [clients EXCEPT ![e] = Settle(c, st, events)]
      /\ net' = net \cup Routed(e, st.sk.sent)
      /\ faults' = Charge(st)
      /\ last' = log
      /\ delivered' = [delivered EXCEPT ![e] = g.d]
      /\ redelivered' = g.dup
      /\ due' = IF log.op = "update" THEN due \ {e} ELSE due
      /\ UNCHANGED <<config, now, overflow_checks>>

\* ---- the operations of the API
Busy(e) == clients[e].panicked \/ Len(clients[e].events) >= MaxEvents

\* a call other than update has left the state st
Called(op, e, addr, channel_id, message, st) ==
  /\ Finish(e, clients[e], st, st.events,
            Log(op, e, addr, channel_id, message, clients[e], st, <<>>, <<>>), <<>>)
  /\ UNCHANGED inbox

\* Returned with the queue emptied also when update fails
Returned_lossy(e, r) ==
  /\ Finish(e, clients[e], r.st, <<>>,
            [Log("update", e, e, 0, <<>>, clients[e], r.st,
                 IF r.st.sk.err = "Ok" /\ ~r.st.panicked THEN r.st.events ELSE <<>>,
                 r.trace)
               EXCEPT !.drained = r.drained],
            r.trace)
  /\ inbox' = [inbox EXCEPT ![e] = r.inbox]

\* update has come to r: it returns the events and empties the queue, unless
\* it failed or panicked
Returned(e, r) ==
  /\ Finish(e, clients[e], r.st,
            IF r.st.sk.err = "Ok" /\ ~r.st.panicked THEN <<>> ELSE r.st.events,
            [Log("update", e, e, 0, <<>>, clients[e], r.st,
                 IF r.st.sk.err = "Ok" /\ ~r.st.panicked THEN r.st.events ELSE <<>>,
                 r.trace)
               EXCEPT !.drained = r.drained],
            r.trace)
  /\ inbox' = [inbox EXCEPT ![e] = r.inbox]

Connect(e, addr, fail) ==
  /\ ~Busy(e)
  /\ Called("connect", e, addr, 0, <<>>,
            Client_connect(OpState(clients[e], fail), config[e], clients[e].instance,
                           addr, now))

Disconnect(e, addr, fail) ==
  /\ ~Busy(e)
  /\ Called("disconnect", e, addr, 0, <<>>,
            Client_disconnect(OpState(clients[e], fail), config[e], addr))

DisconnectAll(e, order, fail) ==
  /\ ~Busy(e)
  /\ Called("disconnect_all", e, e, 0, <<>>,
            Client_disconnect_all(OpState(clients[e], fail), config[e],
                                  SelectSeq(order, LAMBDA a : a \in Tracked(e))))

\* the sequence counter of the channel a send would use is below MaxSends
Room(e, addr, channel_id) ==
  LET c == clients[e].connections
  IN  (addr \in DOMAIN c /\ channel_id < Len(c[addr].channels)
         /\ c[addr].channels[channel_id + 1].channel_type.kind
              \in {"SendReliable", "SendFecReliable"})
        => c[addr].channels[channel_id + 1].channel_type.seq_counter < MaxSends

Send(e, addr, channel_id, message, fail) ==
  /\ ~Busy(e)
  /\ Room(e, addr, channel_id)
  /\ Called("send", e, addr, channel_id, message,
            Client_send(OpState(clients[e], fail), config[e], addr, channel_id, message,
                        now))

SendSingle(e, channel_id, message, fail) ==
  /\ ~Busy(e)
  /\ \A addr \in Tracked(e) : Room(e, addr, channel_id)
  /\ Called("send_single", e, e, channel_id, message,
            Client_send_single(OpState(clients[e], fail), config[e], channel_id, message,
                               now))

Update(e, order, fail) ==
  /\ ~clients[e].panicked
  /\ Returned(e, Client_update(OpState(clients[e], fail), config[e],
                               clients[e].instance, inbox[e], order, now,
                               overflow_checks))

\* ---- the environment
Idle ==
  [op |-> "none", ep |-> "", addr |-> "", channel_id |-> 0, message |-> <<>>,
   result |-> "Ok", sent |-> <<>>, pushed |-> <<>>, returned |-> <<>>,
   created |-> {}, trace |-> <<>>, drained |-> None, value |-> None]

\* the clock moves on by one millisecond
Advance(limit) ==
  /\ now < limit
  /\ now' = now + 1
  /\ last' = Idle
  /\ UNCHANGED <<clients, config, inbox, net, overflow_checks, faults, delivered,
                 redelivered>>

Tick == Advance(MaxTime) /\ UNCHANGED due

\* the clock moves on under the timing the endpoints and the network keep:
\* every endpoint has called update since it last moved, and no datagram is
\* still in flight
Prompt(limit) ==
  /\ due = {}
  /\ net = {}
  /\ Advance(limit)
  /\ due' = Endpoints

PromptTick == Prompt(MaxClock)

\* the network hands a datagram in flight to its destination's socket, and
\* either forgets it or keeps a copy to deliver again
Arrive(d, keep, room) ==
  /\ d \in net
  /\ Len(inbox[d.dst]) < room
  /\ inbox' = [inbox EXCEPT ![d.dst] = Append(@, [addr |-> d.src, data |-> d.data])]
  /\ net' = IF keep THEN net ELSE net \ {d}
  /\ last' = Idle
  /\ UNCHANGED <<clients, config, now, overflow_checks, faults, delivered, redelivered,
                 due>>

Deliver(d, keep) == Arrive(d, keep, MaxInbox)

Drop(d) ==
  /\ d \in net
  /\ net' = net \ {d}
  /\ last' = Idle
  /\ UNCHANGED <<clients, config, inbox, now, overflow_checks, faults, delivered,
                 redelivered, due>>

\* a datagram of any content arrives from any address
Inject(e, src, data) ==
  /\ Len(inbox[e]) < MaxInbox
  /\ inbox' = [inbox EXCEPT ![e] = Append(@, [addr |-> src, data |-> data])]
  /\ last' = Idle
  /\ UNCHANGED <<clients, config, net, now, overflow_checks, faults, delivered,
                 redelivered, due>>

\* ---- configurations
Threshold == <<5, 4>>

BaseConfig(listen, channels) ==
  [max_message_size |-> 40, heartbeat_interval |-> 1, timeout |-> 2,
   ping_memory_length |-> 2, listen |-> listen, channels |-> channels]

ReliableChannels ==
  <<[kind |-> "SendReliable", resend_threshhold |-> Threshold],
    [kind |-> "ReceiveReliable"]>>

FecChannels ==
  <<[kind |-> "SendFecReliable", resend_threshhold |-> Threshold,
     max_data_symbols |-> 2, max_repair_symbols |-> 1],
    [kind |-> "ReceiveFecReliable"]>>

UnreliableChannels ==
  <<[kind |-> "SendUnreliable"], [kind |-> "ReceiveUnreliable"]>>

\* the channel list of the other side: each channel's opposite at its index
Opposite(kind) ==
  CASE kind = "SendUnreliable" -> "ReceiveUnreliable"
    [] kind = "ReceiveUnreliable" -> "SendUnreliable"
    [] kind = "SendReliable" -> "ReceiveReliable"
    [] kind = "ReceiveReliable" -> "SendReliable"
    [] kind = "SendFecReliable" -> "ReceiveFecReliable"
    [] kind = "ReceiveFecReliable" -> "SendFecReliable"

Mirror(channels) ==
  [i \in 1..Len(channels) |->
     IF Opposite(channels[i].kind) \in {"SendReliable", "SendFecReliable"}
     THEN (IF Opposite(channels[i].kind) = "SendReliable" THEN ReliableChannels[1]
           ELSE FecChannels[1])
     ELSE [kind |-> Opposite(channels[i].kind)]]

\* ---- the messages the application sends
Payload(n) == <<10 + n>>
FecMessage(n) == <<20 + n, 30 + n, 40 + n>>

\* ---- the datagrams an arbitrary peer may send
Heartbeat(instance, time) ==
  <<0>> \o to_be_bytes(instance, 16) \o to_be_bytes(time, 16)

Echo(time) == <<2>> \o to_be_bytes(time, 16)

FecPackets(seq) ==
  LET enc == encode_source_block(FecMessage(seq), 2, 1)
  IN  {FecPacket(seq, enc.num_source_symbols, i - 1, FecMessage(seq), enc.symbols[i]) :
         i \in 1..Len(enc.symbols)}

\* ---- initial states: the endpoints are bound, nothing is connected, the
\* clock is at 0
TypeOK ==
  /\ now \in 0..MaxTime
  /\ faults \in 0..MaxFaults
  /\ redelivered \in BOOLEAN
  /\ \A e \in Endpoints : Len(inbox[e]) <= MaxInbox

Start(cfg, builds, budget) ==
  /\ config = cfg
  /\ clients = [e \in DOMAIN cfg |->
                  Unwrap(Client_bind(cfg[e], IF e = "A" THEN 1 ELSE 2, TRUE).client)]
  /\ inbox = [e \in DOMAIN cfg |-> <<>>]
  /\ net = {}
  /\ now = 0
  /\ overflow_checks \in builds
  /\ faults = budget
  /\ last = Idle
  /\ delivered = [e \in DOMAIN cfg |-> [a \in Addr |-> {}]]
  /\ redelivered = FALSE
  /\ due = {}

\* ---- Spec: the life cycle of the Connections of one endpoint, B, whose
\* peer A sends it any sequence of control datagrams
LifeDatagrams ==
  {<<>>, <<1>>, <<0, 0>>, <<2, 0>>, <<255>>, <<CHANNEL_OFFSET + 2>>,
   Heartbeat(1, 0), Heartbeat(3, 0), <<CHANNEL_OFFSET + 1>> \o Payload(0)}

Init ==
  \E listen \in BOOLEAN :
    Start([e \in {"B"} |-> BaseConfig(listen, UnreliableChannels)], {TRUE}, MaxFaults)

Next ==
  \/ \E fail \in FailPoints : Connect("B", "A", fail)
  \/ \E fail \in FailPoints : Disconnect("B", "A", fail)
  \/ \E order \in Orders("B"), fail \in FailPoints : Update("B", order, fail)
  \/ \E data \in LifeDatagrams : Inject("B", "A", data)
  \/ Tick

Spec == Init /\ [][Next]_vars

\* ---- SpecRecv: a listening endpoint, B, whose ReceiveReliable channel is
\* sent data frames in any order and any number of times
DataFrame(channel_id, seq, payload) ==
  <<CHANNEL_OFFSET + channel_id>> \o to_be_bytes(seq, 8) \o payload

RecvDatagrams ==
  {DataFrame(1, q, Payload(q)) : q \in 0..MaxSeq}
    \cup {<<CHANNEL_OFFSET + 1, 0, 0, 0>>, <<1>>}

InitRecv ==
  Start([e \in {"B"} |-> BaseConfig(TRUE, ReliableChannels)], {TRUE}, MaxFaults)

NextRecv ==
  \/ \E order \in Orders("B"), fail \in FailPoints : Update("B", order, fail)
  \/ \E data \in RecvDatagrams : Inject("B", "A", data)

SpecRecv == InitRecv /\ [][NextRecv]_vars

\* ---- SpecNet: A connects to the listening B and sends it payloads on
\* channel 0, SendReliable at A and ReceiveReliable at B; the network
\* reorders datagrams, delivers channel frames any number of times and loses
\* what it never delivers; both Connections persist
SeqCounter(e, addr, channel_id) ==
  clients[e].connections[addr].channels[channel_id + 1].channel_type.seq_counter

\* the application sends Payload(n) as its n-th message
SendNext(e, addr, channel_id, messages) ==
  /\ addr \in Tracked(e)
  /\ Send(e, addr, channel_id, messages[SeqCounter(e, addr, channel_id)], -1)

InitNet ==
  Start([e \in {"A", "B"} |->
           IF e = "A" THEN BaseConfig(FALSE, ReliableChannels)
           ELSE BaseConfig(TRUE, Mirror(ReliableChannels))],
        {FALSE}, 0)

NextNet ==
  \/ "B" \notin Tracked("A") /\ Connect("A", "B", -1)
  \/ SendNext("A", "B", 0, [n \in 0..MaxSends |-> Payload(n)])
  \/ \E e \in {"A", "B"} : \E order \in Orders(e) : Update(e, order, -1)
  \/ \E d \in net : Deliver(d, FALSE)
  \/ \E d \in net : d.data[1] >= CHANNEL_OFFSET /\ Deliver(d, TRUE)

SpecNet == InitNet /\ [][NextNet]_vars

\* ---- SpecTimed: A connects to the listening B; both call update at least
\* once per millisecond, which is their heartbeat_interval, and the network
\* delivers every datagram within the millisecond it was sent in
InitTimed ==
  Start([e \in {"A", "B"} |->
           IF e = "A" THEN BaseConfig(FALSE, UnreliableChannels)
           ELSE BaseConfig(TRUE, Mirror(UnreliableChannels))],
        {FALSE}, 0)

NextTimed ==
  \/ "B" \notin Tracked("A") /\ Connect("A", "B", -1)
  \/ \E e \in {"A", "B"} : \E order \in Orders(e) : Update(e, order, -1)
  \/ \E d \in net : Deliver(d, FALSE)
  \/ PromptTick

SpecTimed == InitTimed /\ [][NextTimed]_vars

\* ---- SpecRtt: a listening endpoint, B, in a debug or a release build, is
\* sent tag-2 echoes that carry any timestamp
RttDatagrams == {Echo(t) : t \in {0, 1, U128 - 1}} \cup {<<2, 0>>}

InitRtt ==
  Start([e \in {"B"} |-> BaseConfig(TRUE, UnreliableChannels)], BOOLEAN, 0)

NextRtt ==
  \/ \E order \in Orders("B") : Update("B", order, -1)
  \/ \E data \in RttDatagrams : Inject("B", "A", data)
  \/ Tick

SpecRtt == InitRtt /\ [][NextRtt]_vars

\* ---- SpecSend: an endpoint, B, sends messages of any length on any channel
\* id to a peer it is or is not connected to
SendChannels ==
  <<[kind |-> "SendUnreliable"], [kind |-> "SendReliable", resend_threshhold |-> Threshold],
    [kind |-> "ReceiveReliable"], [kind |-> "ReceiveUnreliable"]>>

Zeros(n) == [i \in 1..n |-> 0]

\* the longest payload a SendReliable frame carries, one byte more, and a
\* payload no frame carries
SendMessages == {Payload(0), Zeros(31), Zeros(32), Zeros(40)}

InitSend ==
  Start([e \in {"B"} |-> BaseConfig(FALSE, SendChannels)], {TRUE}, MaxFaults)

NextSend ==
  \/ \E fail \in FailPoints : Connect("B", "A", fail)
  \/ \E fail \in FailPoints : Disconnect("B", "A", fail)
  \/ \E channel_id \in 0..Len(SendChannels), message \in SendMessages,
        fail \in FailPoints : Send("B", "A", channel_id, message, fail)
  \/ \E order \in Orders("B"), fail \in FailPoints : Update("B", order, fail)

SpecSend == InitSend /\ [][NextSend]_vars

\* ---- SpecFecRecv: a listening endpoint, B, whose ReceiveFecReliable channel
\* is sent the symbols of FEC messages in any order and any number of times
FecFrame(channel_id, packet) == <<CHANNEL_OFFSET + channel_id>> \o packet

FecRecvDatagrams ==
  {FecFrame(1, packet) : packet \in UNION {FecPackets(q) : q \in 0..MaxSeq}}
    \cup {<<CHANNEL_OFFSET + 1, 0, 0, 0>>, <<1>>}

InitFecRecv ==
  Start([e \in {"B"} |-> BaseConfig(TRUE, FecChannels)], {TRUE}, MaxFaults)

NextFecRecv ==
  \/ \E order \in Orders("B"), fail \in FailPoints : Update("B", order, fail)
  \/ \E data \in FecRecvDatagrams : Inject("B", "A", data)

SpecFecRecv == InitFecRecv /\ [][NextFecRecv]_vars

\* ---- SpecFecNet: as SpecNet, with channel 0 SendFecReliable at A, one data
\* and one repair symbol to the message, and ReceiveFecReliable at B
FecPair ==
  <<[kind |-> "SendFecReliable", resend_threshhold |-> Threshold,
     max_data_symbols |-> 1, max_repair_symbols |-> 1]>>

InitFecNet ==
  Start([e \in {"A", "B"} |->
           IF e = "A" THEN BaseConfig(FALSE, FecPair)
           ELSE BaseConfig(TRUE, <<[kind |-> "ReceiveFecReliable"]>>)],
        {FALSE}, 0)

NextFecNet ==
  \/ "B" \notin Tracked("A") /\ Connect("A", "B", -1)
  \/ SendNext("A", "B", 0, [n \in 0..MaxSends |-> FecMessage(n)])
  \/ \E e \in {"A", "B"} : \E order \in Orders(e) : Update(e, order, -1)
  \/ \E d \in net : Deliver(d, FALSE)

SpecFecNet == InitFecNet /\ [][NextFecNet]_vars

\* ---- what the claims speak of
\* the datagrams the receive loop takes for valid frames
IsHeartbeat(data) == Len(data) >= 33 /\ data[1] = 0
IsTimeResponse(data) == Len(data) >= 17 /\ data[1] = 2
IsChannelFrame(data, cfg) ==
  Len(data) >= 1 /\ data[1] >= CHANNEL_OFFSET
    /\ data[1] - CHANNEL_OFFSET < Len(cfg.channels)
ValidFrame(data, cfg) ==
  IsHeartbeat(data) \/ IsTimeResponse(data) \/ IsChannelFrame(data, cfg)

Count(events, ev) == Cardinality({i \in DOMAIN events : events[i] = ev})

\* the receive loop of the update that has just returned took a heartbeat
\* whose instance differs from the one its Connection had recorded
Restarted(t) ==
  /\ IsHeartbeat(t.data)
  /\ IsSome(t.before)
  /\ IsSome(Unwrap(t.before).other_instance)
  /\ Unwrap(Unwrap(t.before).other_instance) # SubSeq(t.data, 2, 17)

\* the sender has let go of the payload it sent with sequence number s: its
\* slot is acknowledged or trimmed, and nothing will send it again
Released(e, addr, channel_id, s) ==
  /\ addr \in Tracked(e)
  /\ LET t == clients[e].connections[addr].channels[channel_id + 1].channel_type
     IN  /\ s < t.seq_counter
         /\ \/ s < t.messages_start_seq
            \/ IsNone(t.messages[s - t.messages_start_seq + 1])

\* C1: every payload that send accepted on a SendReliable channel is enqueued
\* by the receiver as a Message, exactly once, also when several are in
\* flight and arrive out of order: once the sender has let go of a payload,
\* the receiver has enqueued it, and it enqueues none twice.
C1_ReliableDelivery ==
  /\ ~redelivered
  /\ \A s \in 0..(MaxSends - 1) :
       Released("A", "B", 0, s) => <<0, s>> \in delivered["B"]["A"]

\* the sequence number of a data frame
SeqOf(data) == from_be_bytes(SubSeq(data, 2, 9))

\* C2: within one Connection a ReceiveReliable channel returns a payload for
\* a given sequence number at most once, whatever data frames arrive, in
\* whatever order and however often.
C2_DuplicateSuppression == ~redelivered

C2_Witness ==
  /\ last.op = "update"
  /\ ~redelivered
  /\ \E i \in DOMAIN last.trace :
       LET t == last.trace[i]
       IN  /\ Len(t.data) >= 9
           /\ t.data[1] = CHANNEL_OFFSET + 1
           /\ IsSome(t.before) /\ IsSome(t.after)
           /\ SeqOf(t.data) >= Unwrap(t.before).channels[2].channel_type.received_start_seq
           /\ <<1, SeqOf(t.data)>> \in delivered[last.ep][t.addr]
           /\ t.pushed = <<>>

\* C3: every message that send accepted on a SendFecReliable channel is
\* emitted by the receiver as a Message, exactly once, and the sender's slot
\* for it is cleared, also with several messages in flight: once the sender
\* has let go of a message, the receiver has emitted it, and it emits none
\* twice.
C3_FecReliableDelivery ==
  /\ \A s \in 0..(MaxSends - 1) :
       Released("A", "B", 0, s) => <<0, s>> \in delivered["B"]["A"]
  /\ ~redelivered

\* the slot a ReceiveFecReliable ring holds for a sequence number: Received
\* when it is trimmed, NotSeen when the ring has not grown to it
SlotOf(t, seq) ==
  IF seq < t.messages_start_seq THEN Received
  ELSE IF seq - t.messages_start_seq >= Len(t.messages) THEN NotSeen
  ELSE t.messages[seq - t.messages_start_seq + 1]

\* the slot of channel 1 for seq in a Connection, were there one
SlotIn(conn, seq) ==
  IF IsNone(conn) THEN NotSeen
  ELSE SlotOf(Unwrap(conn).channels[2].channel_type, seq)

\* the decoder of the slot once it has been given the symbol of the frame
Fed(slot, data) ==
  push_encoding_symbol(IF slot.state = "NotSeen"
                       THEN SourceBlockDecoder_new(from_be_bytes(SubSeq(data, 10, 13)))
                       ELSE Unwrap(slot.decoder),
                       Tail_from(data, 16), data[14])

WholeAck(addr, channel_id, seq) ==
  [addr |-> addr, data |-> <<CHANNEL_OFFSET + channel_id, 0>> \o to_be_bytes(seq, 8)]

\* a symbol of a FEC message that the receive loop handed to channel 1 and
\* whose receive call returned Ok
FecSymbol(t) ==
  /\ Len(t.data) >= 16
  /\ t.data[1] = CHANNEL_OFFSET + 1
  /\ IsSome(t.after)
  /\ t.err = "Ok"

\* the symbol with which the decoder first reports fully_specified
Completes(t) ==
  /\ FecSymbol(t)
  /\ ~IsReceived(SlotIn(t.before, SeqOf(t.data)))
  /\ fully_specified(Fed(SlotIn(t.before, SeqOf(t.data)), t.data))

\* C4: a ReceiveFecReliable channel emits the decoded message in the receive
\* call in which the decoder first reports fully_specified, marks the slot
\* Received and sends a whole-message ACK; every later symbol for that
\* sequence, its slot Received in the ring or trimmed, produces a
\* whole-message ACK and no Message; no other symbol produces a Message.
C4_FecRecoveryThreshold ==
  last.op = "update" =>
    \A i \in DOMAIN last.trace :
      LET t == last.trace[i]
          seq == SeqOf(t.data)
          messages == SelectSeq(t.pushed, LAMBDA ev : ev.type = "Message")
      IN  FecSymbol(t) =>
            IF Completes(t)
            THEN /\ messages = <<EvMessage(t.addr, 1, FecMessage(seq))>>
                 /\ IsReceived(SlotIn(t.after, seq))
                 /\ t.sent[Len(t.sent)] = WholeAck(t.addr, 1, seq)
            ELSE IF IsReceived(SlotIn(t.before, seq))
            THEN /\ messages = <<>>
                 /\ t.sent[Len(t.sent)] = WholeAck(t.addr, 1, seq)
                 /\ IsReceived(SlotIn(t.after, seq))
            ELSE /\ messages = <<>>
                 /\ ~IsReceived(SlotIn(t.after, seq))

C4_Witness ==
  /\ last.op = "update"
  /\ \E i \in DOMAIN last.trace :
       LET t == last.trace[i]
       IN  /\ Completes(t)
           /\ Cardinality(Fed(SlotIn(t.before, SeqOf(t.data)), t.data).got) = 2
           /\ t.pushed = <<EvMessage(t.addr, 1, FecMessage(SeqOf(t.data)))>>
           /\ SeqOf(t.data) > 0
           /\ SeqOf(t.data) >= Unwrap(t.after).channels[2].channel_type.messages_start_seq

\* the timestamp a tag-2 echo carries
EchoedTime(data) == from_be_bytes(SubSeq(data, 2, 17))

\* C5: no datagram makes Client::update panic, whatever its tag, length and
\* field values, a tag-2 echo with any 16-byte timestamp included, and the
\* subtraction elapsed_ms - echoed timestamp stays in range.
C5_NoCrash ==
  /\ \A e \in Endpoints : ~clients[e].panicked
  /\ last.op = "update" =>
       \A i \in DOMAIN last.trace :
         LET t == last.trace[i]
         IN  (IsTimeResponse(t.data) /\ IsSome(t.after))
               => EchoedTime(t.data) <= now - Unwrap(t.after).creation_time

\* what a step may do to other_instance
C6_Step ==
  \A e \in Endpoints :
    /\ \A addr \in (Tracked(e) \cap DOMAIN clients'[e].connections) \ last'.created :
         LET old == clients[e].connections[addr].other_instance
         IN  \/ clients'[e].connections[addr].other_instance = old
             \/ IsNone(old) /\ last'.op = "update" /\ last'.ep = e
    /\ (last'.op = "update" /\ last'.ep = e) =>
         \A i \in DOMAIN last'.trace :
           LET t == last'.trace[i]
           IN  /\ (IsHeartbeat(t.data) /\ IsSome(t.after) /\ ~Restarted(t)
                     /\ (IsNone(t.before) \/ IsNone(Unwrap(t.before).other_instance)))
                    => Unwrap(t.after).other_instance = Some(SubSeq(t.data, 2, 17))
               /\ (IsSome(t.before) /\ IsSome(t.after))
                    => \/ Unwrap(t.after).other_instance = Unwrap(t.before).other_instance
                       \/ /\ IsNone(Unwrap(t.before).other_instance)
                          /\ IsHeartbeat(t.data)
                          /\ Unwrap(t.after).other_instance = Some(SubSeq(t.data, 2, 17))
               /\ Restarted(t)
                    => /\ IsNone(t.after)
                       /\ t.pushed = <<EvDisconnection(t.addr, "OriginChangedInstance")>>

\* C6: a Connection records other_instance from the first heartbeat it
\* receives and nothing changes it afterwards for as long as the Connection
\* lives; a later heartbeat that carries a different instance removes the
\* Connection and enqueues exactly one Disconnection(peer,
\* OriginChangedInstance).
C6_InstanceStability == [][C6_Step]_vars

C6_Witness ==
  /\ last.op = "update"
  /\ \E i \in DOMAIN last.trace :
       /\ Restarted(last.trace[i])
       /\ last.trace[i].addr \notin Tracked(last.ep)
       /\ Count(clients[last.ep].events,
                EvDisconnection(last.trace[i].addr, "OriginChangedInstance")) = 0
       /\ Count(last.returned,
                EvDisconnection(last.trace[i].addr, "OriginChangedInstance")) = 1

\* C7: in every update, once the receive loop is through, each tracked peer
\* whose age (now - last_received_keep_alive) exceeds timeout is removed and
\* exactly one Disconnection(peer, Timeout) is enqueued for it, and no peer
\* whose age is at most timeout is removed for Timeout.
C7_TimeoutDetection ==
  (last.op = "update" /\ IsSome(last.drained)) =>
    LET e == last.ep
        drained == Unwrap(last.drained)
    IN  \A addr \in DOMAIN drained :
          LET age == now - drained[addr].last_received_keep_alive
              reported == Count(last.pushed, EvDisconnection(addr, "Timeout"))
          IN  IF age > config[e].timeout
              THEN addr \notin Tracked(e) /\ reported = 1
              ELSE addr \in Tracked(e) /\ reported = 0

C7_Witness ==
  /\ last.op = "update"
  /\ IsSome(last.drained)
  /\ \E addr \in DOMAIN Unwrap(last.drained) :
       /\ now - Unwrap(last.drained)[addr].last_received_keep_alive > config[last.ep].timeout
       /\ addr \notin Tracked(last.ep)
       /\ Count(last.returned, EvDisconnection(addr, "Timeout")) = 1

IsTimeout(ev) == ev.type = "Disconnection" /\ ev.reason = "Timeout"

\* C8: two connected endpoints, one listening, that both call update at
\* least once per heartbeat_interval, with heartbeat_interval < timeout and
\* datagrams delivered promptly, never enqueue Disconnection(peer, Timeout):
\* an update leaves no Connection whose last heartbeat is more than
\* heartbeat_interval old, and every valid frame received refreshes
\* last_received_keep_alive.
C8_NoSpuriousTimeout ==
  /\ \A e \in Endpoints : config[e].heartbeat_interval < config[e].timeout
  /\ \A i \in DOMAIN last.pushed : ~IsTimeout(last.pushed[i])
  /\ last.op = "update" =>
       /\ \A addr \in Tracked(last.ep) :
            now - clients[last.ep].connections[addr].last_sent_keep_alive
              <= config[last.ep].heartbeat_interval
       /\ \A i \in DOMAIN last.trace :
            LET t == last.trace[i]
            IN  (ValidFrame(t.data, config[last.ep]) /\ IsSome(t.after))
                  => Unwrap(t.after).last_received_keep_alive = now

C8_Witness ==
  /\ now > config["A"].timeout + config["A"].heartbeat_interval
  /\ last.op = "update"
  /\ "B" \in Tracked("A") /\ "A" \in Tracked("B")
  /\ \E i \in DOMAIN last.trace :
       /\ IsHeartbeat(last.trace[i].data)
       /\ IsSome(last.trace[i].before)
       /\ now - Unwrap(last.trace[i].before).last_received_keep_alive
            = config[last.ep].timeout

\* what a step of a non-listening endpoint may do
C9_Step ==
  \A e \in Endpoints :
    ~config[e].listen =>
      /\ DOMAIN clients'[e].connections \subseteq
           Tracked(e) \cup (IF last'.op = "connect" /\ last'.ep = e
                            THEN {last'.addr} ELSE {})
      /\ (last'.op = "update" /\ last'.ep = e) =>
           \A i \in DOMAIN last'.trace :
             LET t == last'.trace[i]
             IN  (IsNone(t.before) /\ ValidFrame(t.data, config[e])) =>
                   /\ IsNone(t.after)
                   /\ t.pushed = <<>>
                   /\ t.err = "Ok" => t.sent = <<[addr |-> t.addr, data |-> <<1>>]>>

\* C9: an endpoint with listen = false answers a valid frame from an address
\* it does not track with a Close packet, creates no Connection and emits no
\* event for it; the addresses it tracks are always among those it was told
\* to connect to.
C9_NoInboundConnections == [][C9_Step]_vars

C9_Witness ==
  /\ last.op = "update"
  /\ ~config[last.ep].listen
  /\ \E i \in DOMAIN last.trace :
       LET t == last.trace[i]
       IN  /\ IsNone(t.before)
           /\ ValidFrame(t.data, config[last.ep])
           /\ t.sent = <<[addr |-> t.addr, data |-> <<1>>]>>
           /\ t.addr \notin Tracked(last.ep)

\* the length of the packet Channel::send stages
StagedLen(kind, message) ==
  1 + (IF kind = "SendReliable" THEN 8 ELSE 0) + Len(message)

\* the error Client::send owes the call (e, addr, channel_id, message)
SendError(e, addr, channel_id, message) ==
  LET c == clients[e].connections
      kind == c[addr].channels[channel_id + 1].channel_type.kind
  IN  IF addr \notin DOMAIN c THEN "AddressNotConnected"
      ELSE IF channel_id >= Len(c[addr].channels) THEN "InvalidChannelId"
      ELSE IF kind \in {"ReceiveUnreliable", "ReceiveReliable", "ReceiveFecReliable"}
           THEN "SendOnReceiveChannel"
      ELSE IF StagedLen(kind, message) > config[e].max_message_size
           THEN "MessageTooLong"
      ELSE "none"

\* what a call of Client::send may do
C10_Step ==
  last'.op = "send" =>
    LET e == last'.ep
        owed == SendError(e, last'.addr, last'.channel_id, last'.message)
    IN  IF owed = "none"
        THEN last'.result \in {"Ok", "IoError"}
        ELSE /\ last'.result = owed
             /\ last'.sent = <<>>
             /\ clients'[e].connections = clients[e].connections

\* C10: Client::send returns AddressNotConnected when addr is not tracked,
\* whatever the channel id; InvalidChannelId when it is tracked and
\* channel_id >= channels.len(); SendOnReceiveChannel on a Receive* channel;
\* MessageTooLong when the staged packet would exceed max_message_size; and
\* in each of these cases it transmits nothing and leaves seq_counter and the
\* ring as they were.
C10_SendErrors == [][C10_Step]_vars

C10_Witness ==
  /\ last.op = "send"
  /\ last.result = "MessageTooLong"
  /\ last.channel_id = 1
  /\ Len(last.message) = config[last.ep].max_message_size - 8
  /\ last.sent = <<>>
  /\ last.addr \in Tracked(last.ep)
  /\ SeqCounter(last.ep, last.addr, 1) = 1

\* ---- SpecSingle: an endpoint, B, that connects to and disconnects from two
\* peers, is sent Close packets by them, and calls send_single in between
InitSingle ==
  Start([e \in {"B"} |-> BaseConfig(FALSE, SendChannels)], {TRUE}, MaxFaults)

NextSingle ==
  \/ \E addr \in {"A", "C"}, fail \in FailPoints : Connect("B", addr, fail)
  \/ \E addr \in {"A", "C"}, fail \in FailPoints : Disconnect("B", addr, fail)
  \/ \E channel_id \in 0..Len(SendChannels), message \in {Payload(0), Zeros(40)},
        fail \in FailPoints : SendSingle("B", channel_id, message, fail)
  \/ \E order \in Orders("B"), fail \in FailPoints : Update("B", order, fail)
  \/ \E addr \in {"A", "C"} : Inject("B", addr, <<1>>)
  \/ \E order \in Orders("B"), fail \in FailPoints : DisconnectAll("B", order, fail)
  \/ Tick

SpecSingle == InitSingle /\ [][NextSingle]_vars

\* what a call of Client::send_single may do: fail would be the number of
\* datagrams the socket sends before it fails
C11_Step ==
  last'.op = "send_single" =>
    LET e == last'.ep
    IN  IF Cardinality(Tracked(e)) # 1
        THEN /\ last'.result = "SendSingleInvalid"
             /\ last'.sent = <<>>
             /\ clients'[e] = clients[e]
        ELSE \E fail \in FailPoints :
               LET st == Client_send(OpState(clients[e], fail), config[e],
                                     CHOOSE addr \in Tracked(e) : TRUE,
                                     last'.channel_id, last'.message, now)
               IN  /\ last'.result = Result(st)
                   /\ last'.sent = st.sk.sent
                   /\ clients'[e] = Settle(clients[e], st, st.events)

\* C11: send_single returns SendSingleInvalid when the table holds no peer or
\* two or more, and when it holds exactly one it does what send to that peer
\* does, whatever connect, disconnect and update calls came before.
C11_SendSingleGating == [][C11_Step]_vars

C11_Witness ==
  /\ last.op = "send_single"
  /\ last.result = "Ok"
  /\ Cardinality(Tracked(last.ep)) = 1
  /\ \E addr \in Tracked(last.ep) :
       /\ last.sent = <<[addr |-> addr, data |-> <<CHANNEL_OFFSET + 1>>
                                                  \o to_be_bytes(0, 8) \o Payload(0)]>>
       /\ SeqCounter(last.ep, addr, 1) = 1

\* ---- SpecBind: an endpoint, B, is bound with few channels, with as many
\* as bind accepts, or with one more; when bound it connects to A and sends
\* on its first and last channels
ChannelCounts == {0, 1, 251, 252, 253}

\* n channels to send on, the last of them reliable
ManyChannels(n) ==
  [i \in 1..n |-> IF i = n THEN [kind |-> "SendReliable", resend_threshhold |-> Threshold]
                  ELSE [kind |-> "SendUnreliable"]]

\* the channel ids the application tries: the first, the last three a
\* configuration can have, and one beyond
TriedChannels == {0, 250, 251, 252, 253}

InitBind ==
  \E n \in ChannelCounts, bound \in BOOLEAN :
    LET cfg == BaseConfig(FALSE, ManyChannels(n))
        r == Client_bind(cfg, 2, bound)
    IN  /\ config = [e \in {"B"} |-> cfg]
        /\ clients = [e \in (IF r.err = "Ok" THEN {"B"} ELSE {}) |-> Unwrap(r.client)]
        /\ inbox = [e \in {"B"} |-> <<>>]
        /\ net = {}
        /\ now = 0
        /\ overflow_checks = TRUE
        /\ faults = 0
        /\ last = [Idle EXCEPT !.op = "bind", !.ep = "B", !.result = r.err]
        /\ delivered = [e \in {"B"} |-> [a \in Addr |-> {}]]
        /\ redelivered = FALSE
        /\ due = {}

NextBind ==
  /\ "B" \in Endpoints
  /\ \/ Connect("B", "A", -1)
     \/ Disconnect("B", "A", -1)
     \/ \E channel_id \in TriedChannels : Send("B", "A", channel_id, Payload(0), -1)
     \/ \E order \in Orders("B") : Update("B", order, -1)
     \/ Inject("B", "A", Echo(0))
     \/ Tick

SpecBind == InitBind /\ [][NextBind]_vars

OutOfRange(data, cfg) ==
  Len(data) >= 1 /\ data[1] >= 3 /\ data[1] - 3 >= Len(cfg.channels)

\* C13: an inbound datagram whose tag t >= 3 has t - 3 >= channels.len() has
\* no effect, tracked source or not, listening or not: no Connection is
\* created, no event enqueued, no packet sent, last_received_keep_alive is not
\* refreshed and no channel state changes.
C13_OutOfRangeDropped ==
  last.op = "update" =>
    \A i \in DOMAIN last.trace :
      LET t == last.trace[i]
      IN  OutOfRange(t.data, config[last.ep]) =>
            /\ t.after = t.before
            /\ t.pushed = <<>>
            /\ t.sent = <<>>
            /\ t.err = "Ok" /\ ~t.panicked

C13_Witness ==
  /\ last.op = "update"
  /\ \E i \in DOMAIN last.trace :
       LET t == last.trace[i]
       IN  /\ OutOfRange(t.data, config[last.ep])
           /\ IsSome(t.before)
           /\ Unwrap(t.before).last_received_keep_alive < now
           /\ Unwrap(t.after).last_received_keep_alive < now
           /\ t.addr \in Tracked(last.ep)

ClosePacket(addr) == [addr |-> addr, data |-> <<1>>]

\* what a call of disconnect or disconnect_all may do
C14_Step ==
  LET e == last'.ep
      addr == last'.addr
  IN  /\ last'.op = "disconnect" =>
           IF addr \in Tracked(e)
           THEN /\ clients'[e].connections = Remove(clients[e].connections, addr)
                /\ last'.result = "Ok" =>
                     /\ last'.value = Some(TRUE)
                     /\ last'.sent = <<ClosePacket(addr)>>
                     /\ last'.pushed = <<EvDisconnection(addr, "Kicked")>>
           ELSE /\ last'.result = "Ok"
                /\ last'.value = Some(FALSE)
                /\ last'.sent = <<>>
                /\ last'.pushed = <<>>
                /\ clients'[e] = clients[e]
      /\ (last'.op = "disconnect_all" /\ last'.result = "Ok") =>
           /\ DOMAIN clients'[e].connections = {}
           /\ Len(last'.sent) = Cardinality(Tracked(e))
           /\ Len(last'.pushed) = Cardinality(Tracked(e))
           /\ \A peer \in Tracked(e) :
                /\ Count(last'.sent, ClosePacket(peer)) = 1
                /\ Count(last'.pushed, EvDisconnection(peer, "Kicked")) = 1

\* C14: disconnect(addr) on a tracked peer removes it, sends it one Close
\* packet and enqueues exactly one Disconnection(addr, Kicked); on an address
\* that is not tracked it returns false, sends nothing and enqueues nothing.
\* When disconnect_all returns Ok the table is empty and every peer that was
\* tracked has been sent one Close packet and has one Disconnection(addr,
\* Kicked) enqueued.
C14_LocalDisconnect == [][C14_Step]_vars

C14_Witness ==
  /\ last.op = "disconnect_all"
  /\ last.result = "Ok"
  /\ Tracked(last.ep) = {}
  /\ Count(last.sent, ClosePacket("A")) = 1
  /\ Count(last.sent, ClosePacket("C")) = 1
  /\ Count(clients[last.ep].events, EvDisconnection("A", "Kicked")) = 1
  /\ Count(clients[last.ep].events, EvDisconnection("C", "Kicked")) = 1

\* C15: a tag-1 datagram from a tracked peer removes its Connection and
\* enqueues exactly one Disconnection(peer, Other); from an address that is
\* not tracked it changes nothing; either way no packet is sent in reply and
\* no Connection is created, listening or not.
C15_ClosePacket ==
  last.op = "update" =>
    \A i \in DOMAIN last.trace :
      LET t == last.trace[i]
      IN  (Len(t.data) >= 1 /\ t.data[1] = 1) =>
            /\ IsNone(t.after)
            /\ t.sent = <<>>
            /\ t.err = "Ok" /\ ~t.panicked
            /\ t.pushed = IF IsSome(t.before)
                          THEN <<EvDisconnection(t.addr, "Other")>>
                          ELSE <<>>

C15_Witness ==
  /\ last.op = "update"
  /\ config[last.ep].listen
  /\ \E i \in DOMAIN last.trace :
       LET t == last.trace[i]
       IN  /\ t.data = <<1>>
           /\ IsSome(t.before)
           /\ t.addr \notin Tracked(last.ep)
           /\ Count(last.returned, EvDisconnection(t.addr, "Other")) = 1
           /\ last.sent = <<>>

\* what a step may do to the event queue of an endpoint
C16_Step ==
  \A e \in Endpoints :
    IF last'.op \in {"none", "bind"} \/ last'.ep # e
    THEN clients'[e].events = clients[e].events
    ELSE IF last'.op = "update" /\ last'.result = "Ok"
         THEN /\ last'.returned = clients[e].events \o last'.pushed
              /\ clients'[e].events = <<>>
         ELSE /\ last'.returned = <<>>
              /\ clients'[e].events = clients[e].events \o last'.pushed

\* C16: every event that connect, disconnect, disconnect_all or update
\* enqueues is returned by exactly one successful update, in the order of
\* enqueueing, and the queue is empty after a successful update; an update
\* that returns an error returns no event and keeps all of them queued for
\* the next successful update.
C16_EventHandOver == [][C16_Step]_vars

C16_Witness ==
  /\ last.op = "update"
  /\ last.result = "IoError"
  /\ last.returned = <<>>
  /\ Len(last.pushed) >= 1
  /\ Len(clients[last.ep].events) > Len(last.pushed)
  /\ Pushed(SubSeq(clients[last.ep].events, 1,
                   Len(clients[last.ep].events) - Len(last.pushed)),
            clients[last.ep].events) = last.pushed

\* ---- SpecEcho: A, not listening, with channels [SendUnreliable,
\* ReceiveUnreliable], connects to the listening B, whose channel list is the
\* opposite one, and sends "hi" on channel 0; the network may reorder
EchoInbox == 2

Hi == <<104, 105>>

InitEcho ==
  Start([e \in {"A", "B"} |->
           IF e = "A" THEN BaseConfig(FALSE, UnreliableChannels)
           ELSE BaseConfig(TRUE, Mirror(UnreliableChannels))],
        {TRUE}, 0)

NextEcho ==
  \/ "B" \notin Tracked("A") /\ Connect("A", "B", -1)
  \/ "B" \in Tracked("A") /\ Send("A", "B", 0, Hi, -1)
  \/ \E e \in {"A", "B"} : \E order \in Orders(e) : Update(e, order, -1)
  \/ \E d \in net : Arrive(d, FALSE, EchoInbox)

SpecEcho == InitEcho /\ [][NextEcho]_vars

\* the frame that carries "hi" on channel 0
HiFrame == <<CHANNEL_OFFSET + 0>> \o Hi

\* an update of B that has received the frame of "hi" once
HiReceived ==
  /\ last.op = "update"
  /\ last.ep = "B"
  /\ Cardinality({i \in DOMAIN last.trace :
                    last.trace[i].addr = "A" /\ last.trace[i].data = HiFrame}) = 1

\* C17 as stated: A (listen = false, channels [SendUnreliable,
\* ReceiveUnreliable]) connects to B (listen = true, the mirrored list) and
\* sends "hi" on channel 0; the update of B that receives it returns
\* Message(A, 1, "hi") and no further events.
C17_EchoAsStated ==
  HiReceived => last.returned = <<EvMessage("A", 1, Hi)>>

\* C17, amended: the update of B that receives "hi" returns Message(A, 0,
\* "hi"), the channel id being the index the frame was sent on, preceded by
\* Connection(A) when this update is the one that creates the Connection, and
\* no further events.
C17_UnreliableEcho ==
  HiReceived =>
    last.returned = (IF "A" \in last.created THEN <<EvConnection("A")>> ELSE <<>>)
                      \o <<EvMessage("A", 0, Hi)>>

C17_Witness ==
  /\ HiReceived
  /\ Len(last.trace) = 2
  /\ IsHeartbeat(last.trace[1].data)
  /\ last.returned = <<EvConnection("A"), EvMessage("A", 0, Hi)>>

\* ---- SpecDrain: A connects to the listening B and sends on its
\* SendReliable channel; both keep calling update, at least once per
\* millisecond; the network loses channel frames, data and acks alike, until
\* LossUntil and delivers every datagram, within its millisecond, from then on
LossUntil == 2

DrainClock == 3

InitDrain ==
  Start([e \in {"A", "B"} |->
           IF e = "A" THEN BaseConfig(FALSE, ReliableChannels)
           ELSE BaseConfig(TRUE, Mirror(ReliableChannels))],
        {TRUE}, 0)

UpdateOf(e) == \E order \in Orders(e) : Update(e, order, -1)

DeliverAny == \E d \in net : Deliver(d, FALSE)

Lose == \E d \in net : d.data[1] >= CHANNEL_OFFSET /\ now < LossUntil /\ Drop(d)

NextDrain ==
  \/ "B" \notin Tracked("A") /\ Connect("A", "B", -1)
  \/ SendNext("A", "B", 0, [n \in 0..MaxSends |-> Payload(n)])
  \/ UpdateOf("A")
  \/ UpdateOf("B")
  \/ DeliverAny
  \/ Lose
  \/ Prompt(DrainClock)

\* the step by which e, with an update owed to this millisecond or a datagram
\* waiting on its socket, calls update: among the steps of NextDrain only
\* UpdateOf(e) discharges the update owed and reads the socket empty
Polled(e) ==
  /\ e \in due \/ inbox[e] # <<>>
  /\ due' = due \ {e}
  /\ inbox' = [inbox EXCEPT ![e] = <<>>]

SpecDrain ==
  /\ InitDrain
  /\ [][NextDrain]_vars
  /\ WF_<<due, inbox>>(Polled("A"))
  /\ WF_<<due, inbox>>(Polled("B"))
  /\ WF_vars(DeliverAny)
  /\ WF_vars(Prompt(DrainClock))

\* the SendReliable ring of A towards B holds nothing
RingEmpty ==
  "B" \in Tracked("A") =>
    LET t == clients["A"].connections["B"].channels[1].channel_type
    IN  t.messages = <<>> /\ t.messages_start_seq = t.seq_counter

\* C18: on a SendReliable channel of a Connection that persists, with both
\* endpoints calling update, an RTT sample obtained and a network that loses
\* frames but not for ever, every in-flight slot is eventually acknowledged
\* and the ring becomes, and stays, empty with messages_start_seq =
\* seq_counter.
C18_SenderDrain == <>[]RingEmpty

C18_Witness ==
  /\ "B" \in Tracked("A")
  /\ RingEmpty
  /\ SeqCounter("A", "B", 0) = MaxSends
  /\ IsSome(clients["A"].connections["B"].average_ping)
  /\ now >= LossUntil
  /\ last.op = "update" /\ last.ep = "A"
  /\ \E i \in DOMAIN last.trace :
       /\ Len(last.trace[i].data) = 9
       /\ last.trace[i].data[1] = CHANNEL_OFFSET
       /\ IsSome(Unwrap(last.trace[i].before).channels[1].channel_type.messages[1])

\* the ring of RTT samples that results from pushing one more sample
Evicted(memory, length) ==
  IF Len(memory) >= length /\ Len(memory) > 0 THEN Tail(memory) ELSE memory

\* the RTT fields of one Connection agree with each other
RttConsistent(conn, length) ==
  /\ Len(conn.ping_memory) <= length
  /\ IsNone(conn.average_ping) <=> conn.ping_memory = <<>>
  /\ IsSome(conn.average_ping) =>
       Unwrap(conn.average_ping)
         = SumSeq(conn.ping_memory) \div Len(conn.ping_memory)

\* the ring before and after one tag-2 echo: the oldest sample goes first
RttPushed(before, after, length) ==
  /\ after.ping_memory # <<>>
  /\ SubSeq(after.ping_memory, 1, Len(after.ping_memory) - 1)
       = Evicted(before.ping_memory, length)

\* C19: for every Connection, after any sequence of tag-2 echoes, ping_memory
\* holds at most ping_memory_length samples, the oldest sample is the one
\* evicted when the ring is full, average_ping is None exactly while no sample
\* has arrived and is otherwise the floor of the mean of the samples in
\* ping_memory.
C19_RttBuffer ==
  /\ \A e \in Endpoints : \A addr \in Tracked(e) :
       RttConsistent(clients[e].connections[addr], config[e].ping_memory_length)
  /\ last.op = "update" =>
       \A i \in DOMAIN last.trace :
         LET t == last.trace[i]
         IN  /\ (IsTimeResponse(t.data) /\ IsSome(t.after) /\ ~t.panicked) =>
                  /\ RttConsistent(Unwrap(t.after), config[last.ep].ping_memory_length)
                  /\ IsSome(t.before) =>
                       RttPushed(Unwrap(t.before), Unwrap(t.after),
                                 config[last.ep].ping_memory_length)
             /\ (~IsTimeResponse(t.data) /\ IsSome(t.before) /\ IsSome(t.after)
                   /\ ~Restarted(t)) =>
                  /\ Unwrap(t.after).ping_memory = Unwrap(t.before).ping_memory
                  /\ Unwrap(t.after).average_ping = Unwrap(t.before).average_ping

\* C19 without the clause on the mean
C19_RingOnly ==
  /\ \A e \in Endpoints : \A addr \in Tracked(e) :
       LET conn == clients[e].connections[addr]
       IN  /\ Len(conn.ping_memory) <= config[e].ping_memory_length
           /\ IsNone(conn.average_ping) <=> conn.ping_memory = <<>>
  /\ last.op = "update" =>
       \A i \in DOMAIN last.trace :
         LET t == last.trace[i]
         IN  (IsTimeResponse(t.data) /\ IsSome(t.before) /\ IsSome(t.after)
                /\ ~t.panicked) =>
               RttPushed(Unwrap(t.before), Unwrap(t.after),
                         config[last.ep].ping_memory_length)

\* ---- SpecAck: an endpoint, B, sends on a SendReliable and on a
\* SendFecReliable channel to the peer A, from whose address any acknowledgement
\* frame arrives: for a sequence number in flight, already trimmed or never
\* sent, for a symbol that exists or does not, and cut short
AckChannels == <<ReliableChannels[1], FecPair[1]>>

ReliableAcks == {to_be_bytes(seq, 8) : seq \in 0..MaxSends} \cup {<<0>>}

FecAcks ==
  {<<0>> \o to_be_bytes(seq, 8) : seq \in 0..MaxSends}
    \cup {<<1>> \o to_be_bytes(seq, 8) \o <<i>> : seq \in 0..MaxSends, i \in 0..2}
    \cup {<<1>> \o to_be_bytes(0, 8), <<0, 0>>}

AcksOf(kind) == IF kind = "SendReliable" THEN ReliableAcks ELSE FecAcks

InitAck ==
  Start([e \in {"B"} |-> BaseConfig(FALSE, AckChannels)], {TRUE}, 0)

NextAck ==
  \/ "A" \notin Tracked("B") /\ Connect("B", "A", -1)
  \/ SendNext("B", "A", 0, [n \in 0..MaxSends |-> Payload(n)])
  \/ SendNext("B", "A", 1, [n \in 0..MaxSends |-> FecMessage(n)])
  \/ \E order \in Orders("B") : Update("B", order, -1)
  \/ \E i \in 1..Len(AckChannels) : \E ack \in AcksOf(AckChannels[i].kind) :
       Inject("B", "A", <<CHANNEL_OFFSET + i - 1>> \o ack)

SpecAck == InitAck /\ [][NextAck]_vars

\* what the claim compares of a sender
Core(ch) ==
  <<ch.channel_type.messages_start_seq, ch.channel_type.messages,
    ch.channel_type.seq_counter>>

\* the channel after one more receive of the frame ack
Acked(ch, ack) ==
  Channel_receive(ch, ack, OpState(clients["B"], -1).sk,
                  config["B"].max_message_size).ch

IsSender(ch) == ch.channel_type.kind \in {"SendReliable", "SendFecReliable"}

\* C20: for SendReliable acks, SendFecReliable whole-message acks and
\* SendFecReliable single-symbol acks, in every reachable sender state,
\* receiving the same ack frame twice or three times in a row leaves
\* (messages_start_seq, ring, seq_counter) as receiving it once does, acks for
\* trimmed and for never sent sequence numbers included; and the sender an
\* update leaves after an ack frame is unchanged by the same frame again.
C20_AckIdempotence ==
  /\ \A addr \in Tracked("B") :
       \A i \in DOMAIN clients["B"].connections[addr].channels :
         LET ch == clients["B"].connections[addr].channels[i]
         IN  IsSender(ch) =>
               \A ack \in AcksOf(ch.channel_type.kind) :
                 /\ Core(Acked(Acked(ch, ack), ack)) = Core(Acked(ch, ack))
                 /\ Core(Acked(Acked(Acked(ch, ack), ack), ack)) = Core(Acked(ch, ack))
  /\ last.op = "update" =>
       \A j \in DOMAIN last.trace :
         LET t == last.trace[j]
         IN  (IsChannelFrame(t.data, config["B"]) /\ IsSome(t.before) /\ IsSome(t.after)) =>
               LET i == t.data[1] - CHANNEL_OFFSET + 1
                   was == Unwrap(t.before).channels[i]
                   ch == Unwrap(t.after).channels[i]
               IN  /\ Core(ch) = Core(Acked(was, Tail(t.data)))
                   /\ Core(Acked(ch, Tail(t.data))) = Core(ch)

\* an update has taken the acknowledgement of the last symbol of the second
\* FEC message while the first was in flight, and has moved the window
C20_Witness ==
  /\ last.op = "update"
  /\ \E j \in DOMAIN last.trace :
       LET t == last.trace[j]
       IN  /\ t.data = <<CHANNEL_OFFSET + 1, 1>> \o to_be_bytes(1, 8) \o <<1>>
           /\ IsSome(t.before) /\ IsSome(t.after)
           /\ Len(Unwrap(t.before).channels[2].channel_type.messages) = 2
           /\ IsSome(Unwrap(t.before).channels[2].channel_type.messages[1])
           /\ Unwrap(t.after).channels[2].channel_type.messages_start_seq = 1
           /\ Core(Acked(Unwrap(t.after).channels[2], Tail(t.data)))
                = Core(Unwrap(t.after).channels[2])

\* the ReceiveReliable channels of endpoint e: the pairs of a peer and a
\* 0-based channel id
ReceiveRings(e) ==
  {x \in Tracked(e) \X (0..(Len(config[e].channels) - 1)) :
     config[e].channels[x[2] + 1].kind = "ReceiveReliable"}

\* C21: in every reachable state of a ReceiveReliable channel, every sequence
\* number below received_start_seq has been emitted to the application,
\* exactly once, since the Connection was created: a data frame is discarded
\* by the test against received_start_seq only if its payload was delivered
\* earlier.
C21_TrimmedDelivered ==
  /\ ~redelivered
  /\ \A e \in Endpoints : \A x \in ReceiveRings(e) :
       LET t == clients[e].connections[x[1]].channels[x[2] + 1].channel_type
       IN  \A s \in 0..(t.received_start_seq - 1) : <<x[2], s>> \in delivered[e][x[1]]

\* the pass of the receive loop took a data frame, with its 8 bytes of
\* sequence number, on the ReceiveReliable channel 1 of a Connection
IsDataFrame(t) ==
  /\ Len(t.data) >= 9
  /\ t.data[1] = CHANNEL_OFFSET + 1
  /\ IsSome(t.before) /\ IsSome(t.after)
  /\ Unwrap(t.after).channels[2].channel_type.kind = "ReceiveReliable"

\* the number of slots a pass popped from the front of the ring
Popped(t) ==
  Unwrap(t.after).channels[2].channel_type.received_start_seq
    - Unwrap(t.before).channels[2].channel_type.received_start_seq

\* C22: after every inbound data frame the ReceiveReliable ring is empty or
\* its front slot is false (not yet delivered); the slots popped from the
\* front, each raising received_start_seq by one, are slots that were true:
\* the ring keeps no delivered slot at its front and pops no undelivered one.
C22_ReceiveFrontTrim ==
  last.op = "update" =>
    \A i \in DOMAIN last.trace :
      LET t == last.trace[i]
          old == Unwrap(t.before).channels[2].channel_type
          new == Unwrap(t.after).channels[2].channel_type
          seen == [GrowTo(old.received, SeqOf(t.data) - old.received_start_seq, FALSE)
                     EXCEPT ![SeqOf(t.data) - old.received_start_seq + 1] = TRUE]
      IN  IsDataFrame(t) =>
            /\ new.received = <<>> \/ ~new.received[1]
            /\ (Popped(t) > 0 /\ SeqOf(t.data) >= old.received_start_seq) =>
                 \A k \in 1..Popped(t) : seen[k]

\* the pass of the receive loop took an acknowledgement, whole-message or
\* single-symbol, on the SendFecReliable channel 1 of a Connection
IsFecAck(t) ==
  /\ Len(t.data) >= 2
  /\ t.data[1] = CHANNEL_OFFSET + 1
  /\ t.data[2] \in {0, 1}
  /\ IsSome(t.before) /\ IsSome(t.after)
  /\ Unwrap(t.after).channels[2].channel_type.kind = "SendFecReliable"

\* C23: after every inbound ack, whole-message or single-symbol, the
\* SendFecReliable ring is empty or its front slot is Some (in flight); after
\* the single-symbol ack that clears the last symbol of a slot, the leading
\* None slots have been popped and messages_start_seq moved past them.
C23_FecFrontTrim ==
  last.op = "update" =>
    \A i \in DOMAIN last.trace :
      LET t == last.trace[i]
          messages == Unwrap(t.after).channels[2].channel_type.messages
      IN  IsFecAck(t) => (messages = <<>> \/ IsSome(messages[1]))

\* the slot of sequence number s in a SendFecReliable ring, None when s is
\* outside the ring
FecSlot(t, s) ==
  IF s >= t.messages_start_seq /\ s - t.messages_start_seq < Len(t.messages)
  THEN t.messages[s - t.messages_start_seq + 1]
  ELSE None

\* the sequence number an acknowledgement frame names
AckSeq(data) == from_be_bytes(SubSeq(data, 3, 10))

\* data is the single-symbol ack for the only symbol of slot that is left
LastSymbolAck(data, slot) ==
  /\ Len(data) >= 11
  /\ data[2] = 1
  /\ data[11] < Len(slot.symbols)
  /\ \A k \in 1..Len(slot.symbols) : IsSome(slot.symbols[k]) => k = data[11] + 1

\* C24: a SendFecReliable slot that is in flight leaves the ring or becomes
\* None only by a whole-message ack for its own sequence number or by the
\* single-symbol ack for the last of its symbols; an ack for one sequence
\* number never removes or clears the slot of another.
C24_FecSlotKept ==
  last.op = "update" =>
    \A i \in DOMAIN last.trace :
      LET t == last.trace[i]
          old == Unwrap(t.before).channels[2].channel_type
          new == Unwrap(t.after).channels[2].channel_type
      IN  IsFecAck(t) =>
            \A s \in 0..(old.seq_counter - 1) :
              (IsSome(FecSlot(old, s)) /\ IsNone(FecSlot(new, s))) =>
                /\ Len(t.data) >= 10
                /\ AckSeq(t.data) = s
                /\ t.data[2] = 0 \/ LastSymbolAck(t.data, Unwrap(FecSlot(old, s)))

\* ---- SpecRing: a listening endpoint, B, with one of three channel lists
\* (the two send rings, a ReceiveReliable ring, a ReceiveFecReliable ring),
\* sends on its send channels, with and without send failures, and is sent,
\* from the address of its peer A, any frame of its channels' kinds: data
\* frames and FEC symbols in any order, acknowledgements for any sequence
RingConfigs == {AckChannels, <<ReliableChannels[2]>>, <<FecChannels[2]>>}

FramesOf(kind, channel_id) ==
  CASE kind = "SendReliable" -> {<<CHANNEL_OFFSET + channel_id>> \o a : a \in ReliableAcks}
    [] kind = "SendFecReliable" -> {<<CHANNEL_OFFSET + channel_id>> \o a : a \in FecAcks}
    [] kind = "ReceiveReliable" ->
         {DataFrame(channel_id, q, Payload(q)) : q \in 0..MaxSeq}
           \cup {<<CHANNEL_OFFSET + channel_id, 0, 0, 0>>}
    [] kind = "ReceiveFecReliable" ->
         {FecFrame(channel_id, packet) : packet \in UNION {FecPackets(q) : q \in 0..MaxSeq}}
           \cup {<<CHANNEL_OFFSET + channel_id, 0, 0, 0>>}
    [] OTHER -> {}

\* the application sends Payload(n), or FecMessage(n) on a FEC channel, as the
\* message of sequence number n
MessageOf(kind, n) == IF kind = "SendReliable" THEN Payload(n) ELSE FecMessage(n)

InitRing ==
  \E channels \in RingConfigs :
    Start([e \in {"B"} |-> BaseConfig(TRUE, channels)], {TRUE}, MaxFaults)

NextRing ==
  \/ "A" \notin Tracked("B") /\ Connect("B", "A", -1)
  \/ \E i \in DOMAIN config["B"].channels, fail \in FailPoints :
       /\ "A" \in Tracked("B")
       /\ config["B"].channels[i].kind \in {"SendReliable", "SendFecReliable"}
       /\ Send("B", "A", i - 1,
               MessageOf(config["B"].channels[i].kind, SeqCounter("B", "A", i - 1)), fail)
  \/ \E order \in Orders("B"), fail \in FailPoints : Update("B", order, fail)
  \/ \E i \in DOMAIN config["B"].channels :
       \E data \in FramesOf(config["B"].channels[i].kind, i - 1) : Inject("B", "A", data)

SpecRing == InitRing /\ [][NextRing]_vars

\* base_seq + ring.len() of a channel
Extent(ch) ==
  LET t == ch.channel_type
  IN  CASE t.kind \in {"SendReliable", "SendFecReliable", "ReceiveFecReliable"} ->
             t.messages_start_seq + Len(t.messages)
        [] t.kind = "ReceiveReliable" -> t.received_start_seq + Len(t.received)
        [] OTHER -> 0

\* slot k of a send ring, if in flight, holds the message of sequence number seq
HoldsSeq(t, k, seq) ==
  IsSome(t.messages[k]) =>
    IF t.kind = "SendReliable" THEN Unwrap(t.messages[k]).data = Payload(seq)
    ELSE \A j \in DOMAIN Unwrap(t.messages[k]).symbols :
           LET packet == Unwrap(t.messages[k]).symbols[j]
           IN  IsSome(packet) => from_be_bytes(SubSeq(Unwrap(packet), 1, 8)) = seq

SendExtent(ch) ==
  LET t == ch.channel_type
  IN  t.kind \in {"SendReliable", "SendFecReliable"} =>
        /\ Extent(ch) = t.seq_counter
        /\ \A k \in DOMAIN t.messages : HoldsSeq(t, k, t.messages_start_seq + k - 1)

IsReceiver(ch) == ch.channel_type.kind \in {"ReceiveReliable", "ReceiveFecReliable"}

\* the sequence number a frame shows to a receive channel, if it shows one
Observed(ch, data) ==
  IF Len(data) - 1 >= (IF ch.channel_type.kind = "ReceiveReliable" THEN 8 ELSE 15)
  THEN Some(SeqOf(data)) ELSE None

Max(a, b) == IF a >= b THEN a ELSE b

\* what one pass of the receive loop does to the extent of the receive rings
\* of the Connection of its origin
ReceiveExtent(t, cfg) ==
  IsSome(t.after) =>
    \A i \in DOMAIN Unwrap(t.after).channels :
      LET new == Unwrap(t.after).channels[i]
          before == IF IsSome(t.before) /\ ~t.created
                    THEN Extent(Unwrap(t.before).channels[i]) ELSE 0
          seen == IF IsChannelFrame(t.data, cfg) /\ t.data[1] - CHANNEL_OFFSET = i - 1
                  THEN Observed(new, t.data) ELSE None
      IN  IsReceiver(new) =>
            Extent(new) = IF IsSome(seen) THEN Max(before, Unwrap(seen) + 1) ELSE before

C25_Step ==
  \A e \in Endpoints :
    /\ \A addr \in DOMAIN clients'[e].connections :
         \A i \in DOMAIN clients'[e].connections[addr].channels :
           LET new == clients'[e].connections[addr].channels[i]
           IN  /\ SendExtent(new)
               /\ (IsReceiver(new) /\ ~(last'.op = "update" /\ last'.ep = e)) =>
                    Extent(new) = IF addr \in Tracked(e) /\ addr \notin last'.created
                                  THEN Extent(clients[e].connections[addr].channels[i])
                                  ELSE 0
    /\ (last'.op = "update" /\ last'.ep = e /\ last'.result = "Ok") =>
         \A j \in DOMAIN last'.trace : ReceiveExtent(last'.trace[j], config[e])

\* C25: in every reachable state a SendReliable or SendFecReliable ring has
\* messages_start_seq + messages.len() = seq_counter and its slot i holds the
\* message of sequence number messages_start_seq + i; the base sequence plus
\* the length of a ReceiveReliable or ReceiveFecReliable ring is one more than
\* the highest sequence number observed so far, 0 when none was: it is 0 on a
\* new Connection, each frame that shows a sequence number s raises it to
\* s + 1 if it was lower, and nothing else changes it.
C25_RingExtent == [][C25_Step]_vars

\* an update has taken, on a new Connection, a frame of sequence number 2
\* before any other and has left the extent of the receive ring at 3
C25_Witness ==
  /\ last.op = "update" /\ last.result = "Ok"
  /\ \E j \in DOMAIN last.trace :
       LET t == last.trace[j]
       IN  /\ IsChannelFrame(t.data, config["B"])
           /\ IsSome(t.after)
           /\ IsReceiver(Unwrap(t.after).channels[1])
           /\ Observed(Unwrap(t.after).channels[1], t.data) = Some(2)
           /\ t.created
           /\ Extent(Unwrap(t.after).channels[1]) = 3

\* the tag-2 echoes among the datagrams one pass of the receive loop sent
Echoes(t) == SelectSeq(t.sent, LAMBDA d : Len(d.data) >= 1 /\ d.data[1] = 2)

\* C26: a heartbeat whose instance differs from the stored instance of the
\* peer removes the Connection, enqueues the Disconnection for the changed
\* instance and is not answered with a tag-2 echo; a heartbeat that is the
\* first on its Connection or carries the stored instance is answered with
\* exactly one tag-2 echo carrying its 16 timestamp bytes verbatim.
C26_ConditionalEcho ==
  last.op = "update" =>
    \A i \in DOMAIN last.trace :
      LET t == last.trace[i]
      IN  (IsHeartbeat(t.data) /\ t.err = "Ok") =>
            /\ Restarted(t) =>
                 /\ IsNone(t.after)
                 /\ t.pushed = <<EvDisconnection(t.addr, "OriginChangedInstance")>>
                 /\ Echoes(t) = <<>>
            /\ (~Restarted(t) /\ IsSome(t.after)) =>
                 Echoes(t) = <<[addr |-> t.addr, data |-> <<2>> \o SubSeq(t.data, 18, 33)]>>
            /\ (~Restarted(t) /\ IsNone(t.after)) => Echoes(t) = <<>>

\* the last pass of a receive loop that took a datagram from addr, 0 if none
RECURSIVE LastFrom(_, _, _)
LastFrom(trace, addr, j) ==
  IF j = 0 THEN 0
  ELSE IF trace[j].addr = addr THEN j
  ELSE LastFrom(trace, addr, j - 1)

\* acks_to_send of channel i of the Connection to addr when the receive loop
\* with this trace is through: conn is the Connection before the update
QueuedAcks(conn, trace, addr, i) ==
  LET j == LastFrom(trace, addr, Len(trace))
  IN  IF j = 0 THEN conn.channels[i].channel_type.acks_to_send
      ELSE Unwrap(trace[j].after).channels[i].channel_type.acks_to_send

\* the datagrams with the type byte of channel i among those sent to addr
FramesSent(sent, addr, i) ==
  SelectSeq(sent, LAMBDA d : d.addr = addr /\ Len(d.data) >= 1
                               /\ d.data[1] = CHANNEL_OFFSET + i - 1)

AckDatagram(addr, i, seq) ==
  [addr |-> addr, data |-> <<CHANNEL_OFFSET + i - 1>> \o to_be_bytes(seq, 8)]

\* what one pass does to acks_to_send of the ReceiveReliable channel 1
QueuesAck(t) ==
  LET new == Unwrap(t.after).channels[2]
      old == IF IsSome(t.before) /\ ~t.created
             THEN Unwrap(t.before).channels[2]
             ELSE [new EXCEPT !.channel_type.acks_to_send = <<>>,
                              !.channel_type.received = <<>>,
                              !.channel_type.received_start_seq = 0]
  IN  IF Len(t.data) >= 9
      THEN new.channel_type.acks_to_send
             = Append(old.channel_type.acks_to_send, SeqOf(t.data))
      ELSE new = old

C27_Step ==
  \A e \in Endpoints :
    (last'.op = "update" /\ last'.ep = e) =>
      /\ \A j \in DOMAIN last'.trace :
           LET t == last'.trace[j]
           IN  (Len(t.data) >= 1 /\ t.data[1] = CHANNEL_OFFSET + 1 /\ IsSome(t.after)
                  /\ Unwrap(t.after).channels[2].channel_type.kind = "ReceiveReliable")
                 => QueuesAck(t)
      /\ last'.result = "Ok" =>
           \A x \in {y \in (DOMAIN clients'[e].connections) \X {2} :
                       config[e].channels[y[2]].kind = "ReceiveReliable"} :
             LET queue == QueuedAcks(IF x[1] \in Tracked(e)
                                     THEN clients[e].connections[x[1]]
                                     ELSE clients'[e].connections[x[1]],
                                     last'.trace, x[1], x[2])
             IN  /\ clients'[e].connections[x[1]].channels[x[2]].channel_type.acks_to_send
                      = <<>>
                 /\ FramesSent(last'.sent, x[1], x[2])
                      = [k \in 1..Len(queue) |-> AckDatagram(x[1], x[2], queue[k])]

AfterLoop(conn, trace, addr) ==
  LET j == LastFrom(trace, addr, Len(trace))
  IN  IF j = 0 THEN conn ELSE Unwrap(trace[j].after)

\* slot k of the ring t is to be retransmitted under the RTT ping: it is in
\* flight and older than ping * resend_threshhold
Overdue(t, k, ping, time) ==
  /\ IsSome(t.messages[k])
  /\ IsSome(ping)
  /\ (time - Unwrap(t.messages[k]).last_sent) * t.resend_threshhold[2]
       > Unwrap(ping) * t.resend_threshhold[1]

\* the frames of the overdue slots k..Len, in ring order
RECURSIVE Retransmitted(_, _, _, _, _)
Retransmitted(conn, i, k, ping, time) ==
  LET t == conn.channels[i].channel_type
  IN  IF k > Len(t.messages) THEN <<>>
      ELSE (IF Overdue(t, k, ping, time)
            THEN <<[addr |-> conn.addr,
                    data |-> <<CHANNEL_OFFSET + i - 1>>
                               \o to_be_bytes(t.messages_start_seq + k - 1, 8)
                               \o Unwrap(t.messages[k]).data]>>
            ELSE <<>>) \o Retransmitted(conn, i, k + 1, ping, time)

\* what the update of channel i does to the Connection was
ResendRule(was, new, sent, i, time) ==
  LET t == was.channels[i].channel_type
  IN  /\ FramesSent(sent, was.addr, i) = Retransmitted(was, i, 1, was.average_ping, time)
      /\ new.channels[i].channel_type
           = [t EXCEPT !.messages =
                [k \in DOMAIN t.messages |->
                   IF Overdue(t, k, was.average_ping, time)
                   THEN Some([Unwrap(t.messages[k]) EXCEPT !.last_sent = time])
                   ELSE t.messages[k]]]

C28_Step ==
  (last'.op = "update" /\ last'.ep = "A" /\ last'.result = "Ok"
     /\ "B" \in DOMAIN clients'["A"].connections /\ "B" \in Tracked("A")) =>
    ResendRule(AfterLoop(clients["A"].connections["B"], last'.trace, "B"),
               clients'["A"].connections["B"], last'.sent, 1, now)

\* C28: the update of a SendReliable channel transmits nothing and changes no
\* slot while average_ping is None; with average_ping = Some(p) it retransmits
\* exactly the slots that are Some and whose age since last_sent exceeds
\* p * resend_threshhold, in ring order, each with its sequence number
\* messages_start_seq + index and its payload, and sets last_sent of those
\* slots only; a slot that is None or trimmed is not retransmitted.
C28_RetransmissionRule == [][C28_Step]_vars

\* an update has retransmitted the frame of sequence number 1 and not that of
\* sequence number 0, which had been acknowledged
C28_Witness ==
  /\ last.op = "update" /\ last.ep = "A" /\ last.result = "Ok"
  /\ "B" \in Tracked("A")
  /\ clients["A"].connections["B"].channels[1].channel_type.messages_start_seq = 1
  /\ FramesSent(last.sent, "B", 1)
       = <<[addr |-> "B", data |-> DataFrame(0, 1, Payload(1))]>>
  /\ last.trace = <<>>

\* ---- SpecLife: an endpoint, B, listening or not, connects to and
\* disconnects from the peers A and C, calls disconnect_all and update, with
\* and without send failures, while A sends it any control datagram,
\* heartbeats of two instances and a message, and the clock moves
InitLife == Init

NextLife ==
  \/ \E addr \in {"A", "C"}, fail \in FailPoints : Connect("B", addr, fail)
  \/ \E addr \in {"A", "C"}, fail \in FailPoints : Disconnect("B", addr, fail)
  \/ \E order \in Orders("B"), fail \in FailPoints : DisconnectAll("B", order, fail)
  \/ \E order \in Orders("B"), fail \in FailPoints : Update("B", order, fail)
  \/ \E data \in LifeDatagrams : Inject("B", "A", data)
  \/ Tick

SpecLife == InitLife /\ [][NextLife]_vars

\* the events of a call, in the order enqueued, against the connection table:
\* tracked tells whether addr is in the table before the first of them; the
\* result tells whether each was enqueued in a state that allows it, and
\* whether addr is in the table after the last
RECURSIVE Life(_, _, _)
Life(events, addr, tracked) ==
  IF Len(events) = 0 THEN [ok |-> TRUE, tracked |-> tracked]
  ELSE LET ev == Head(events)
       IN  IF ev.addr # addr THEN Life(Tail(events), addr, tracked)
           ELSE IF ev.type = "Connection" THEN Life(Tail(events), addr, TRUE)
           ELSE IF ~tracked THEN [ok |-> FALSE, tracked |-> tracked]
           ELSE IF ev.type = "Disconnection" THEN Life(Tail(events), addr, FALSE)
           ELSE Life(Tail(events), addr, tracked)

C29_Step ==
  \A e \in Endpoints :
    (last'.ep = e /\ last'.result = "Ok") =>
      \A addr \in Addr :
        /\ Life(last'.pushed, addr, addr \in Tracked(e)).ok
        /\ Life(last'.pushed, addr, addr \in Tracked(e)).tracked
             = (addr \in DOMAIN clients'[e].connections)

\* C29: in the absence of I/O errors, after any sequence of connect,
\* disconnect, disconnect_all and update calls an address is in the connection
\* table iff the most recent Connection or Disconnection event enqueued for it
\* is a Connection; a Disconnection is enqueued only when a tracked Connection
\* is removed, never twice in a row for one address, and a Message(addr, ..)
\* only while addr is tracked.  Each call that returns Ok enqueues its events
\* in an order that keeps this, starting from the table it found.
C29_LifeCycle == [][C29_Step]_vars

\* an update of a listening endpoint has created the Connection on a message
\* frame and delivered the message
C29_Witness ==
  /\ last.op = "update" /\ last.result = "Ok"
  /\ "A" \in Tracked("B")
  /\ Len(last.pushed) = 2
  /\ last.pushed[1] = EvConnection("A")
  /\ last.pushed[2].type = "Message" /\ last.pushed[2].addr = "A"

\* ---- SpecAgain: A, not listening, holds channel 0 as SendReliable and the
\* listening B holds it as ReceiveReliable. The application of A calls
\* connect whenever it likes, also while B is tracked, and sends
\* PerConnection payloads of its choice on each Connection; the network loses
\* and reorders datagrams and delivers none twice; the clock stands still, so
\* nothing times out and nothing is retransmitted
PerConnection == 1

InitAgain == InitNet

NextAgain ==
  \/ Connect("A", "B", -1)
  \/ \E n \in 0..1 : /\ "B" \in Tracked("A")
                      /\ SeqCounter("A", "B", 0) < PerConnection
                      /\ Send("A", "B", 0, Payload(n), -1)
  \/ \E e \in {"A", "B"} : \E order \in Orders(e) : Update(e, order, -1)
  \/ \E d \in net : Deliver(d, FALSE)

SpecAgain == InitAgain /\ [][NextAgain]_vars

\* the pass found the frame's sequence number inside the ring of the
\* ReceiveReliable channel 0 with its slot already true (line 654)
SeenBefore(t) ==
  /\ IsSome(t.before) /\ ~t.created
  /\ LET c == Unwrap(t.before).channels[1].channel_type
         i == SeqOf(t.data) - c.received_start_seq
     IN  /\ i >= 0 /\ i < Len(c.received)
         /\ c.received[i + 1]

\* C30: across reconnection (connect on a tracked peer) a data frame that the
\* peer discards as a duplicate of a sequence number it has seen carries a
\* payload that the peer's application was given under that sequence number:
\* no message of the fresh Connection is dropped for a sequence number of an
\* earlier one.
C30_NoStaleDuplicate ==
  (last.op = "update" /\ last.ep = "B" /\ "A" \in Tracked("B")) =>
    \A i \in DOMAIN last.trace :
      LET t == last.trace[i]
      IN  (t.addr = "A" /\ Len(t.data) >= 9 /\ t.data[1] = CHANNEL_OFFSET
             /\ SeenBefore(t))
            => /\ t.pushed = <<>>
               /\ <<0, SeqOf(t.data), SubSeq(t.data, 10, Len(t.data))>>
                    \in delivered["B"]["A"]

====
